---------------------------- MODULE Spec2Model ----------------------------
(***************************************************************************)
(* Model of the link-processing service: the scheduler loop                *)
(* (background_worker), the per-candidate pipeline (process_single_link)   *)
(* and the start/stop control handlers of app.py, together with the parts  *)
(* of the extraction and insight services the pipeline branches on.        *)
(*                                                                         *)
(* The program runs on one asyncio event loop, so the code between two     *)
(* awaits that really suspend is one atomic step.  A pipeline run suspends *)
(* in the probe (session.get), in the extraction (browser automation) and  *)
(* in the insight request (session.post); the worker suspends in gather    *)
(* and in its three sleeps; the stop handler suspends awaiting the worker. *)
(***************************************************************************)
EXTENDS Integers, Sequences, FiniteSets, TLC

(***************************************************************************)
(* Bounds of the model.                                                    *)
(***************************************************************************)
\* candidates per batch; stands for generate_links(count=20), kept larger
\* than the semaphore limit so that candidates queue for a slot
BatchSize == 4
\* Over a whole execution of Spec: batches generated, loop iterations in
\* which generate_links raises, candidates whose probe is Accessible, and
\* accepted /start requests (background_worker tasks created).
MaxBatches == 2
MaxErrors == 2
MaxValidLinks == 1
MaxStarts == 1
\* stages that fail within one pipeline run (title generation, directory
\* creation, transcript write, insight write)
MaxFaults == 2
\* The same over a whole execution of FairSpec, which trades batches for a
\* restart after a stop.
StopBatches == 1
StopErrors == 2
StopValidLinks == 1
StopStarts == 2
StopFaults == 0
\* a stop followed by a second start, with a batch for each worker
RestartBatches == 2
RestartErrors == 1
RestartValidLinks == 1
RestartStarts == 2
RestartFaults == 0
\* messages a strategy chain returns for one page
MaxMsgs == 2
\* the counts generate_links is called with on its own: -MaxCount..MaxCount
MaxCount == 3
\* the positions _guess_role_from_content is called with on its own: 0..MaxPosition
MaxPosition == 3

(***************************************************************************)
(* Program constants.                                                      *)
(***************************************************************************)
SemaphoreLimit == 3
FailureThreshold == 3
MinUuidLen == 20
UuidLen == 36
MinInsightMessages == 2
MinPositiveIndicators == 2

Workers == 1..(MaxStarts + StopStarts)
Indices == 1..BatchSize

(***************************************************************************)
(* LinkGenerator.generate_links: count fresh share URLs.  A URL is the     *)
(* fixed prefix followed by str(uuid4()); the n-th uuid ever drawn is      *)
(* represented by n, its text has 36 characters.                           *)
(***************************************************************************)
\* the first 8 characters of the uuid only
Link_short(n) == [prefix_ok |-> TRUE, uuid |-> n, uuid_len |-> 8]

Link(n) == [prefix_ok |-> TRUE, uuid |-> n, uuid_len |-> UuidLen]

generate_links(count, drawn) ==
    IF count > 0 THEN [i \in 1..count |-> Link(drawn + i)] ELSE << >>

(***************************************************************************)
(* improved_validate_link.  resp is what the network does with the GET:    *)
(* exception is raised by session.get ("none" when a response arrives),    *)
(* read_exception by response.text().                                      *)
(***************************************************************************)
\* the response of an accessible conversation page
OkResponse ==
    [exception |-> "none", final_url_auth |-> FALSE, status |-> 200,
     read_exception |-> "none", error_indicator |-> FALSE, positive_count |-> 2]

\* the accessible response and every way of departing from it in one respect
ProbeResponses ==
    {OkResponse,
     [OkResponse EXCEPT !.positive_count = 3],
     [OkResponse EXCEPT !.exception = "TimeoutError"],
     [OkResponse EXCEPT !.exception = "ClientError"],
     [OkResponse EXCEPT !.final_url_auth = TRUE],
     [OkResponse EXCEPT !.status = 404],
     [OkResponse EXCEPT !.status = 403],
     [OkResponse EXCEPT !.status = 500],
     [OkResponse EXCEPT !.read_exception = "TimeoutError"],
     [OkResponse EXCEPT !.error_indicator = TRUE],
     [OkResponse EXCEPT !.positive_count = 1]}

\* the format check that precedes the request: the prefix, then the length
\* of the last path segment
FormatOk_unchecked(url) == TRUE

FormatOk(url) ==
    IF ~url.prefix_ok THEN FALSE
    ELSE IF url.uuid_len < MinUuidLen THEN FALSE
    ELSE TRUE

\* positive_count is the number of the five positive indicators in the body
LooksLikeConversation_one_marker(positive_count) == positive_count >= 1

LooksLikeConversation(positive_count) == positive_count >= MinPositiveIndicators

improved_validate_link(url, resp) ==
    IF ~FormatOk(url) THEN FALSE
    ELSE IF resp.exception # "none" THEN FALSE
    ELSE IF resp.final_url_auth THEN FALSE
    ELSE IF resp.status = 404 THEN FALSE
    ELSE IF resp.status = 403 THEN FALSE
    ELSE IF resp.status >= 400 THEN FALSE
    ELSE IF resp.read_exception # "none" THEN FALSE
    ELSE IF resp.error_indicator THEN FALSE
    ELSE IF ~LooksLikeConversation(resp.positive_count) THEN FALSE
    ELSE TRUE

(***************************************************************************)
(* ContentExtractor.  A message is its role and its content: an ordinary    *)
(* text, or a text holding the banner phrase "unable to load" in lower or  *)
(* in mixed case.                                                          *)
(***************************************************************************)
Roles == {"user", "assistant", "unknown"}
Contents == {"please sort this list", "unable to load conversation", "Unable To Load Conversation"}
Message == [role : Roles, content : Contents]

\* str.lower()
lower(content) ==
    IF content = "Unable To Load Conversation" THEN "unable to load conversation" ELSE content

\* any(pat in content for pat in error_patterns)
HasErrorPattern(content) == content = "unable to load conversation"

SeqsUpTo(S, n) == UNION {[1..k -> S] : k \in 0..n}

_validate_conversation_structure(messages) ==
    /\ messages # << >>
    /\ \E i \in 1..Len(messages) : messages[i].role = "user"
    /\ \E i \in 1..Len(messages) : messages[i].role = "assistant"

\* what _extract_with_multiple_strategies can return for some page: the
\* output of the first strategy that validates, or [] when none does
ChainOutputs ==
    {<< >>} \cup {s \in SeqsUpTo(Message, MaxMsgs) : _validate_conversation_structure(s)}

\* a rendered page as the pipeline sees it: goto/launch may raise, otherwise
\* the strategy chain yields chain
Pages ==
    [render_error : {TRUE}, chain : {<< >>}] \cup [render_error : {FALSE}, chain : ChainOutputs]

is_error_message_case_sensitive(msg) == HasErrorPattern(msg.content)

is_error_message(msg) == HasErrorPattern(lower(msg.content))

CountRole(messages, role) ==
    Cardinality({i \in 1..Len(messages) : messages[i].role = role})

\* the metadata of the transcript dict, counted after the banner filter
Metadata_unfiltered(messages, filtered_messages) ==
    [total_messages |-> Len(messages),
     user_messages |-> CountRole(messages, "user"),
     assistant_messages |-> CountRole(messages, "assistant")]

Metadata(messages, filtered_messages) ==
    [total_messages |-> Len(filtered_messages),
     user_messages |-> CountRole(filtered_messages, "user"),
     assistant_messages |-> CountRole(filtered_messages, "assistant")]

\* extract_conversation: None (why: the page could not be rendered, the
\* chain found nothing, or the filter left nothing), or the transcript dict
extract_conversation(url, page) ==
    IF page.render_error THEN [none |-> TRUE, why |-> "render"]
    ELSE LET messages == page.chain
             filtered_messages == SelectSeq(messages, LAMBDA m : ~is_error_message(m))
         IN  IF filtered_messages = << >>
             THEN [none |-> TRUE, why |-> IF messages = << >> THEN "empty" ELSE "banners"]
             ELSE [none |-> FALSE,
                   url |-> url,
                   messages |-> filtered_messages,
                   metadata |-> Metadata(messages, filtered_messages)]

(***************************************************************************)
(* InsightExtractor.generate_title: derived from the first user message,   *)
(* the timestamp placeholder when there is none.                           *)
(***************************************************************************)
generate_title(messages) ==
    IF \E i \in 1..Len(messages) : messages[i].role = "user"
    THEN "name_summary" ELSE "conversation_timestamp"

\* Step 3 of process_single_link.  title_outcome is how the title generation
\* goes: "ok"; "body_error", an error inside generate_title's try, whose
\* handler returns the timestamp placeholder; "raises", an exception that
\* leaves generate_title, for which step 3 substitutes the fixed placeholder.
TitleOutcomes == {"ok", "body_error", "raises"}

PlaceholderTitle == "Untitled_Conversation"

TitleOrPlaceholder_no_handler(messages, title_outcome) ==
    CASE title_outcome = "ok" -> generate_title(messages)
      [] title_outcome = "body_error" -> "conversation_timestamp"
      [] title_outcome = "raises" -> "unset"

TitleOrPlaceholder(messages, title_outcome) ==
    CASE title_outcome = "ok" -> generate_title(messages)
      [] title_outcome = "body_error" -> "conversation_timestamp"
      [] title_outcome = "raises" -> PlaceholderTitle

\* filename = f"{sanitized_title}_{uuid_str}.json"
Filename(title, url) == [title |-> title, uuid |-> url.uuid]

\* the name tests/test_url.py looks for: the last path segment and ".json",
\* no title in front of it
IdentifierFilename(url) == [uuid |-> url.uuid]

(***************************************************************************)
(* Persistence: a directory is the set of its files; a file whose          *)
(* json.dump failed after open() created it is left incomplete.            *)
(***************************************************************************)
WriteOutcomes == {"ok", "open_fails", "dump_fails"}

WriteFile(dir, name, outcome) ==
    CASE outcome = "ok" -> {f \in dir : f.name # name} \cup {[name |-> name, content |-> "complete"]}
      [] outcome = "dump_fails" -> {f \in dir : f.name # name} \cup {[name |-> name, content |-> "partial"]}
      [] outcome = "open_fails" -> dir

Names(dir) == {f.name : f \in dir}

(***************************************************************************)
(* State.                                                                  *)
(***************************************************************************)
VARIABLES
    is_running,           \* AppState.is_running
    background_task,      \* AppState.background_task: 0 is None, else the worker task
    links_generated,      \* AppState counters
    valid_links,
    insights_extracted,
    failed_validations,
    valid_jsons,          \* files of directory valid_jsons
    insights_json,        \* files of directory insights_json
    wpc,                  \* wpc[w]: where background_worker task w is suspended
    cancel_requested,     \* cancel_requested[w]: task w has been cancelled, CancelledError not yet raised in it
    consecutive_failures, \* local of background_worker
    successful,           \* local of background_worker: successes of the last counted batch
    semaphore,            \* value of the batch's asyncio.Semaphore
    runs,                 \* runs[w][i]: the i-th process_with_semaphore task of the current batch
    errors,               \* loop iterations that ended in the exception handler
    failures_before,      \* failures_before[w]: consecutive_failures when the last batch was counted
    awaiting,             \* worker tasks that a stop_processing handler is awaiting
    caps,                 \* the bounds the execution stays within
    call                  \* the call of a service function under examination, if any

counters == <<links_generated, valid_links, insights_extracted, failed_validations>>
files == <<valid_jsons, insights_json>>
control == <<is_running, background_task, awaiting>>
locals == <<consecutive_failures, successful, failures_before, errors>>
vars == <<is_running, background_task, links_generated, valid_links, insights_extracted,
          failed_validations, valid_jsons, insights_json, wpc, cancel_requested,
          consecutive_failures, successful, semaphore, runs,
          failures_before, errors, awaiting, caps, call>>

\* a process_with_semaphore task that gather has just created
NewRun(url) ==
    [url |-> url, pc |-> "pending", is_valid |-> "unset", messages |-> << >>,
     title |-> "unset", conversation_file |-> "unset", insights_file |-> "unset",
     extract_started |-> FALSE, insights_started |-> FALSE, error |-> "none",
     result |-> "unset", swallowed |-> FALSE, title_error |-> "unset",
     insights_ref |-> FALSE,
     metadata |-> [total_messages |-> 0, user_messages |-> 0, assistant_messages |-> 0]]

\* no service function is examined on its own
NoCall == [fn |-> "none"]

Constructed ==
    /\ is_running = FALSE
    /\ background_task = 0
    /\ links_generated = 0
    /\ valid_links = 0
    /\ insights_extracted = 0
    /\ failed_validations = 0
    /\ valid_jsons = {}
    /\ insights_json = {}
    /\ wpc = [w \in Workers |-> "absent"]
    /\ cancel_requested = [w \in Workers |-> FALSE]
    /\ consecutive_failures = [w \in Workers |-> 0]
    /\ successful = [w \in Workers |-> 0]
    /\ semaphore = [w \in Workers |-> 0]
    /\ runs = [w \in Workers |-> << >>]
    /\ failures_before = [w \in Workers |-> 0]
    /\ errors = 0
    /\ awaiting = {}

Init ==
    /\ Constructed
    /\ caps = [batches |-> MaxBatches, errors |-> MaxErrors, valid |-> MaxValidLinks,
               starts |-> MaxStarts, faults |-> MaxFaults]
    /\ call = NoCall

InitStop ==
    /\ Constructed
    /\ caps = [batches |-> StopBatches, errors |-> StopErrors, valid |-> StopValidLinks,
               starts |-> StopStarts, faults |-> StopFaults]
    /\ call = NoCall

InitRestart ==
    /\ Constructed
    /\ caps = [batches |-> RestartBatches, errors |-> RestartErrors, valid |-> RestartValidLinks,
               starts |-> RestartStarts, faults |-> RestartFaults]
    /\ call = NoCall

(***************************************************************************)
(* process_with_semaphore / process_single_link.                           *)
(***************************************************************************)
InFlightPcs == {"probe", "extract", "insights"}

InFlight(w) == {i \in DOMAIN runs[w] : runs[w][i].pc \in InFlightPcs}

Waiting(w) == {i \in DOMAIN runs[w] : runs[w][i].pc = "waiting"}

\* Semaphore.acquire proceeds without waiting while the value is positive
CanAcquire_nolimit(value) == TRUE

CanAcquire(value) == value > 0

\* the run returns (or raises): the async with block releases its slot
Finish(run, result) == [run EXCEPT !.pc = "done", !.result = result]

\* gather has started the batch's tasks: each runs up to its first suspension,
\* in list order; those that find the semaphore positive enter
\* process_single_link and suspend in the probe, the others queue
TasksFirstStep(w) ==
    /\ wpc[w] = "gather"
    /\ ~cancel_requested[w]
    /\ runs[w] # << >>
    /\ \A i \in DOMAIN runs[w] : runs[w][i].pc = "pending"
    /\ LET acquires(i) == CanAcquire(SemaphoreLimit - (i - 1))
           n == Cardinality({i \in DOMAIN runs[w] : acquires(i)})
       IN  /\ runs' = [runs EXCEPT ![w] =
                          [i \in DOMAIN runs[w] |->
                              [runs[w][i] EXCEPT !.pc = IF acquires(i) THEN "probe" ELSE "waiting"]]]
           /\ semaphore' = [semaphore EXCEPT ![w] = SemaphoreLimit - n]
    /\ UNCHANGED <<caps, call, counters, files, control, locals, wpc, cancel_requested>>

\* a released slot wakes the first waiter (the waiters are queued in list order)
RunAcquire(w, i) ==
    /\ wpc[w] = "gather"
    /\ i \in Waiting(w)
    /\ \A j \in Waiting(w) : i <= j
    /\ CanAcquire(semaphore[w])
    /\ runs' = [runs EXCEPT ![w][i].pc = "probe"]
    /\ semaphore' = [semaphore EXCEPT ![w] = @ - 1]
    /\ UNCHANGED <<caps, call, counters, files, control, locals, wpc, cancel_requested>>

\* "app_state.<counter> += n" in a run: read and write are one step of the
\* event loop, whatever the number of runs in flight at that moment
Added_lost_when_concurrent(counter, n, in_flight) ==
    IF in_flight > 1 THEN counter ELSE counter + n

Added(counter, n, in_flight) == counter + n

\* Step 1 of process_single_link, after improved_validate_link has returned
AfterProbe_count_first(is_valid) ==
    [failed |-> IF is_valid THEN 0 ELSE 1,
     valid |-> 1,
     pc |-> IF is_valid THEN "extract" ELSE "done"]

AfterProbe_extract_anyway(is_valid) ==
    [failed |-> IF is_valid THEN 0 ELSE 1,
     valid |-> IF is_valid THEN 1 ELSE 0,
     pc |-> "extract"]

AfterProbe(is_valid) ==
    [failed |-> IF is_valid THEN 0 ELSE 1,
     valid |-> IF is_valid THEN 1 ELSE 0,
     pc |-> IF is_valid THEN "extract" ELSE "done"]

ProbeReturn(w, i) ==
    /\ i \in DOMAIN runs[w]
    /\ runs[w][i].pc = "probe"
    /\ \E resp \in ProbeResponses :
         LET is_valid == improved_validate_link(runs[w][i].url, resp)
             after == AfterProbe(is_valid)
             run == [runs[w][i] EXCEPT !.is_valid = IF is_valid THEN "True" ELSE "False"]
         IN  /\ is_valid => valid_links < caps.valid
             /\ failed_validations' =
                   Added(failed_validations, after.failed, Cardinality(InFlight(w)))
             /\ valid_links' = Added(valid_links, after.valid, Cardinality(InFlight(w)))
             /\ IF after.pc = "done"
                THEN /\ runs' = [runs EXCEPT ![w][i] = Finish(run, "None")]
                     /\ semaphore' = [semaphore EXCEPT ![w] = @ + 1]
                ELSE /\ runs' = [runs EXCEPT ![w][i] =
                                    [run EXCEPT !.pc = "extract", !.extract_started = TRUE]]
                     /\ UNCHANGED semaphore
    /\ UNCHANGED <<caps, call, links_generated, insights_extracted, files, control, locals, wpc,
                   cancel_requested>>

\* the handler of process_single_link's outer try: except Exception -> return None
OuterExcept_reraise == "Exception"

OuterExcept == "None"

\* Step 4: the transcript is on disk only when open and json.dump both succeeded;
\* otherwise the handler returns None
TranscriptSaved_ignore_error(outcome) == TRUE

TranscriptSaved(outcome) == outcome = "ok"

\* Step 5: insights only for at least one exchange
NeedsInsights_any(messages) == Len(messages) >= 1

NeedsInsights(messages) == Len(messages) >= MinInsightMessages

\* the number of stages that fail in a step of a run
Faults(title_outcome, mkdir_fails, outcome) ==
    (IF title_outcome = "ok" THEN 0 ELSE 1) + (IF mkdir_fails THEN 1 ELSE 0)
       + (IF outcome = "ok" THEN 0 ELSE 1)

\* Steps 2 to 4, after extract_conversation has returned, up to the next
\* suspension (extract_insights) or the return
ExtractReturn(w, i) ==
    /\ i \in DOMAIN runs[w]
    /\ runs[w][i].pc = "extract"
    /\ \E page \in Pages, title_outcome \in TitleOutcomes, mkdir_fails \in BOOLEAN,
          outcome \in WriteOutcomes :
         LET run == runs[w][i]
             conversation_data == extract_conversation(run.url, page)
         IN  /\ Faults(title_outcome, mkdir_fails, outcome) <= caps.faults
             /\ IF conversation_data.none
                THEN /\ title_outcome = "ok" /\ ~mkdir_fails /\ outcome = "ok"
                     /\ runs' = [runs EXCEPT ![w][i] =
                                    Finish([run EXCEPT !.error = conversation_data.why],
                                           "None")]
                     /\ semaphore' = [semaphore EXCEPT ![w] = @ + 1]
                     /\ UNCHANGED valid_jsons
                ELSE LET messages == conversation_data.messages
                         title == TitleOrPlaceholder(messages, title_outcome)
                         filename == Filename(title, run.url)
                         run2 == [run EXCEPT !.messages = messages, !.title = title,
                                             !.title_error = title_outcome,
                                             !.metadata = conversation_data.metadata]
                     IN  IF mkdir_fails
                         THEN /\ outcome = "ok"
                              /\ runs' = [runs EXCEPT ![w][i] =
                                             Finish([run2 EXCEPT !.error = "mkdir"], OuterExcept)]
                              /\ semaphore' = [semaphore EXCEPT ![w] = @ + 1]
                              /\ UNCHANGED valid_jsons
                         ELSE /\ valid_jsons' = WriteFile(valid_jsons, filename, outcome)
                              /\ LET run3 == [run2 EXCEPT
                                                !.conversation_file = IF outcome = "ok" THEN "written" ELSE "failed",
                                                !.error = IF outcome = "ok" THEN "none" ELSE "transcript_write"]
                                 IN  IF ~TranscriptSaved(outcome)
                                     THEN /\ runs' = [runs EXCEPT ![w][i] = Finish(run3, "None")]
                                          /\ semaphore' = [semaphore EXCEPT ![w] = @ + 1]
                                     ELSE IF NeedsInsights(messages)
                                     THEN /\ runs' = [runs EXCEPT ![w][i] =
                                                         [run3 EXCEPT !.pc = "insights", !.insights_started = TRUE]]
                                          /\ UNCHANGED semaphore
                                     ELSE /\ runs' = [runs EXCEPT ![w][i] = Finish(run3, "Result")]
                                          /\ semaphore' = [semaphore EXCEPT ![w] = @ + 1]
    /\ UNCHANGED <<caps, call, counters, insights_json, control, locals, wpc, cancel_requested>>

\* Step 5: the insight file is counted and referenced by the result only when
\* open and json.dump both succeeded; the handler of the inner try logs any
\* other outcome and the run returns the result without insights_file
InsightsSaved_ignore_error(outcome) == TRUE

InsightsSaved(outcome) == outcome = "ok"

\* Step 5, after extract_insights has returned its dict (the LLM's or the
\* fallback): write the insight file, count it, return
InsightsReturn(w, i) ==
    /\ i \in DOMAIN runs[w]
    /\ runs[w][i].pc = "insights"
    /\ \E outcome \in WriteOutcomes :
         LET run == runs[w][i]
             filename == Filename(run.title, run.url)
             saved == InsightsSaved(outcome)
         IN  /\ Faults(run.title_error, FALSE, outcome) <= caps.faults
             /\ insights_json' = WriteFile(insights_json, filename, outcome)
             /\ insights_extracted' =
                   Added(insights_extracted, IF saved THEN 1 ELSE 0, Cardinality(InFlight(w)))
             /\ runs' = [runs EXCEPT ![w][i] =
                            Finish([run EXCEPT !.insights_file = IF outcome = "ok" THEN "written" ELSE "failed",
                                               !.insights_ref = saved,
                                               !.error = IF outcome = "ok" THEN "none" ELSE "insights_write"],
                                   "Result")]
             /\ semaphore' = [semaphore EXCEPT ![w] = @ + 1]
    /\ UNCHANGED <<caps, call, links_generated, valid_links, failed_validations, valid_jsons, control,
                   locals, wpc, cancel_requested>>

(***************************************************************************)
(* background_worker.                                                      *)
(***************************************************************************)
\* a cancelled task runs no further code of its own: the CancelledError is
\* raised at the await it is suspended in
Runnable_ignore_cancel(w) == TRUE

Runnable(w) == ~cancel_requested[w]

\* except Exception in the loop: sleep(10) and go round again
AfterBatchError_raise == "failed"

AfterBatchError == "recover"

\* "consecutive_failures += 1" of the handler
FailuresAfterError_not_counted(failures) == failures

FailuresAfterError(failures) == failures + 1

\* app_state.links_generated += len(links), before the tasks are created
BatchCounted_one_short(generated, links) == generated + Len(links) - 1

BatchCounted(generated, links) == generated + Len(links)

\* one pass of "while app_state.is_running: try: ..." up to its first await.
\* generate_fails: uuid4()/os.urandom raises inside generate_links.
LoopIteration(w, generate_fails) ==
    IF ~is_running
    THEN /\ wpc' = [wpc EXCEPT ![w] = "returned"]
         /\ ~generate_fails
         /\ UNCHANGED <<counters, consecutive_failures, errors, semaphore, runs>>
    ELSE IF generate_fails
    THEN /\ errors < caps.errors
         /\ errors' = errors + 1
         /\ consecutive_failures' =
               [consecutive_failures EXCEPT ![w] = FailuresAfterError(@)]
         /\ wpc' = [wpc EXCEPT ![w] = AfterBatchError]
         /\ UNCHANGED <<counters, semaphore, runs>>
    ELSE LET links == generate_links(BatchSize, links_generated)
         IN  /\ links_generated < caps.batches * BatchSize
             /\ UNCHANGED errors
             /\ links_generated' = BatchCounted(links_generated, links)
             /\ semaphore' = [semaphore EXCEPT ![w] = SemaphoreLimit]
             /\ runs' = [runs EXCEPT ![w] = [i \in DOMAIN links |-> NewRun(links[i])]]
             /\ wpc' = [wpc EXCEPT ![w] = "gather"]
             /\ UNCHANGED <<valid_links, insights_extracted, failed_validations,
                            consecutive_failures>>

\* first step of the task created by start_processing
WorkerBegin(w) ==
    /\ wpc[w] = "created"
    /\ Runnable(w)
    /\ \E generate_fails \in BOOLEAN : LoopIteration(w, generate_fails)
    /\ UNCHANGED <<caps, call, files, control, successful, failures_before, cancel_requested>>

\* asyncio.sleep(15) is over
IntervalElapsed(w) ==
    /\ wpc[w] = "interval"
    /\ Runnable(w)
    /\ \E generate_fails \in BOOLEAN : LoopIteration(w, generate_fails)
    /\ UNCHANGED <<caps, call, files, control, successful, failures_before, cancel_requested>>

\* asyncio.sleep(10) of the exception handler is over
RecoverElapsed(w) ==
    /\ wpc[w] = "recover"
    /\ Runnable(w)
    /\ \E generate_fails \in BOOLEAN : LoopIteration(w, generate_fails)
    /\ UNCHANGED <<caps, call, files, control, successful, failures_before, cancel_requested>>

\* asyncio.sleep(30) is over: on to the inter-batch sleep
CooldownElapsed(w) ==
    /\ wpc[w] = "cooldown"
    /\ Runnable(w)
    /\ wpc' = [wpc EXCEPT ![w] = "interval"]
    /\ UNCHANGED <<caps, call, counters, files, control, locals, semaphore, runs, cancel_requested>>

\* gather(*tasks, return_exceptions=True) returns when every task is done
AllDone_first_completed(w) == \E i \in DOMAIN runs[w] : runs[w][i].pc = "done"

AllDone(w) == \A i \in DOMAIN runs[w] : runs[w][i].pc = "done"

\* sum(1 for result in results if result and not isinstance(result, Exception))
Successful(w) == Cardinality({i \in DOMAIN runs[w] : runs[w][i].result = "Result"})

NextFailures_no_reset(failures, nsuccessful) ==
    IF nsuccessful = 0 THEN failures + 1 ELSE failures

NextFailures(failures, nsuccessful) ==
    IF nsuccessful = 0 THEN failures + 1 ELSE 0

NeedsCooldown_once(failures, nsuccessful) ==
    nsuccessful = 0 /\ failures = FailureThreshold

NeedsCooldown(failures, nsuccessful) ==
    nsuccessful = 0 /\ failures >= FailureThreshold

\* the sleep the worker enters when the batch has been counted: sleep(30)
\* and then sleep(15), or sleep(15) at once
SleepAfterBatch_none_after_success(failures, nsuccessful) ==
    IF NeedsCooldown(failures, nsuccessful) THEN "cooldown"
    ELSE IF nsuccessful > 0 THEN "created"
    ELSE "interval"

SleepAfterBatch(failures, nsuccessful) ==
    IF NeedsCooldown(failures, nsuccessful) THEN "cooldown" ELSE "interval"

\* the batch is complete: count, update consecutive_failures, start the next
\* sleep.  Nothing reads tasks and results after the count, so runs is emptied.
BatchDone(w) ==
    /\ wpc[w] = "gather"
    /\ Runnable(w)
    /\ runs[w] # << >>
    /\ AllDone(w)
    /\ LET nsuccessful == Successful(w)
           failures == NextFailures(consecutive_failures[w], nsuccessful)
       IN  /\ successful' = [successful EXCEPT ![w] = nsuccessful]
           /\ failures_before' = [failures_before EXCEPT ![w] = consecutive_failures[w]]
           /\ consecutive_failures' = [consecutive_failures EXCEPT ![w] = failures]
           /\ wpc' = [wpc EXCEPT ![w] = SleepAfterBatch(failures, nsuccessful)]
           /\ runs' = [runs EXCEPT ![w] = << >>]
           /\ semaphore' = [semaphore EXCEPT ![w] = 0]
    /\ UNCHANGED <<caps, call, counters, files, control, errors, cancel_requested>>

\* the CancelledError reaches the worker: at once in a sleep or before its
\* first step, and in gather when every child task is done; except Exception
\* does not catch it, the task ends cancelled and its locals are gone
WorkerCancelled(w) ==
    /\ cancel_requested[w]
    /\ \/ wpc[w] \in {"created", "cooldown", "interval", "recover"}
       \/ wpc[w] = "gather" /\ \A i \in DOMAIN runs[w] : runs[w][i].pc = "done"
    /\ wpc' = [wpc EXCEPT ![w] = "cancelled"]
    /\ consecutive_failures' = [consecutive_failures EXCEPT ![w] = 0]
    /\ successful' = [successful EXCEPT ![w] = 0]
    /\ failures_before' = [failures_before EXCEPT ![w] = 0]
    /\ runs' = [runs EXCEPT ![w] = << >>]
    /\ semaphore' = [semaphore EXCEPT ![w] = 0]
    /\ UNCHANGED <<caps, call, counters, files, control, errors, cancel_requested>>

(***************************************************************************)
(* The control handlers.                                                   *)
(***************************************************************************)
Absent == {w \in Workers : wpc[w] = "absent"}

\* start_processing assigns is_running, start_time and background_task; a
\* counter of AppState has after the request the value it had before
AfterStart_reset(counter) == 0

AfterStart(counter) == counter

\* POST /start, accepted
start_processing ==
    /\ ~is_running
    /\ Cardinality(Workers \ Absent) < caps.starts
    /\ LET w == CHOOSE v \in Absent : \A u \in Absent : v <= u
       IN  /\ is_running' = TRUE
           /\ background_task' = w
           /\ wpc' = [wpc EXCEPT ![w] = "created"]
    /\ links_generated' = AfterStart(links_generated)
    /\ valid_links' = AfterStart(valid_links)
    /\ insights_extracted' = AfterStart(insights_extracted)
    /\ failed_validations' = AfterStart(failed_validations)
    /\ UNCHANGED <<caps, call, files, locals, semaphore, runs, cancel_requested, awaiting>>

Done(w) == wpc[w] \in {"cancelled", "returned", "failed"}

\* Task.cancel() on a worker suspended in gather cancels every child that is
\* not done.  A child is cancelled at the await it is suspended in; inside
\* extract_conversation that await may sit in a bare "except:" (the element
\* loops of _strategy_structured_extraction and _extract_content), which
\* swallows the CancelledError, and the run goes on.
CancelChildren(w, swallowing) ==
    [i \in DOMAIN runs[w] |->
        IF runs[w][i].pc = "done" THEN runs[w][i]
        ELSE IF i \in swallowing THEN [runs[w][i] EXCEPT !.swallowed = TRUE]
        ELSE Finish(runs[w][i], "Cancelled")]

\* POST /stop, accepted, up to "await app_state.background_task"
stop_processing ==
    /\ is_running
    /\ is_running' = FALSE
    /\ LET w == background_task
       IN  IF Done(w)
           THEN UNCHANGED <<cancel_requested, runs, semaphore, awaiting>>
           ELSE /\ cancel_requested' = [cancel_requested EXCEPT ![w] = TRUE]
                /\ awaiting' = awaiting \cup {w}
                /\ IF wpc[w] = "gather"
                   THEN \E swallowing \in SUBSET {i \in DOMAIN runs[w] : runs[w][i].pc = "extract"} :
                          /\ runs' = [runs EXCEPT ![w] = CancelChildren(w, swallowing)]
                          /\ semaphore' = [semaphore EXCEPT ![w] =
                                              @ + Cardinality(InFlight(w) \ swallowing)]
                   ELSE UNCHANGED <<runs, semaphore>>
    /\ UNCHANGED <<caps, call, counters, files, locals, background_task, wpc>>

\* the awaited worker task is done: stop_processing returns
StopReturn(w) ==
    /\ w \in awaiting
    /\ Done(w)
    /\ awaiting' = awaiting \ {w}
    /\ UNCHANGED <<caps, call, counters, files, locals, is_running, background_task, wpc, semaphore,
                   runs, cancel_requested>>

Next ==
    \/ start_processing
    \/ stop_processing
    \/ \E w \in Workers :
         \/ WorkerBegin(w)
         \/ IntervalElapsed(w)
         \/ RecoverElapsed(w)
         \/ CooldownElapsed(w)
         \/ TasksFirstStep(w)
         \/ BatchDone(w)
         \/ WorkerCancelled(w)
         \/ StopReturn(w)
         \/ \E i \in Indices :
              \/ RunAcquire(w, i)
              \/ ProbeReturn(w, i)
              \/ ExtractReturn(w, i)
              \/ InsightsReturn(w, i)

Spec == Init /\ [][Next]_vars

\* the same program when a second POST /start follows a POST /stop and each
\* worker can dispatch a batch
RestartSpec == InitRestart /\ [][Next]_vars

(***************************************************************************)
(* The awaited operations are bounded by timeouts (probe 15s, page load    *)
(* 30s, insight request 120s) and the event loop delivers a requested      *)
(* cancellation: runs in flight and cancelled workers eventually step.     *)
(***************************************************************************)
RunReturns(w) ==
    \E i \in Indices : ProbeReturn(w, i) \/ ExtractReturn(w, i) \/ InsightsReturn(w, i)

FairSpec ==
    /\ InitStop
    /\ [][Next]_vars
    /\ \A w \in Workers : WF_vars(RunReturns(w)) /\ WF_vars(WorkerCancelled(w))

(***************************************************************************)
(* The service functions on their own: call holds the arguments of one     *)
(* call and what the function has done so far.                             *)
(***************************************************************************)
program == <<counters, files, control, locals, wpc, cancel_requested, semaphore, runs, caps>>

\* ContentExtractor._extract_with_multiple_strategies.  The strategies in the
\* order of the list, each named by the extraction_method it writes into its
\* messages.
strategies_fallback_first ==
    <<"fallback_pattern", "modern_selectors", "alternative_selectors", "generic_selectors",
      "structured_extraction">>

strategies ==
    <<"modern_selectors", "alternative_selectors", "generic_selectors",
      "structured_extraction", "fallback_pattern">>

StrategyNames == {strategies[k] : k \in DOMAIN strategies}

\* the roles of the messages a strategy finds on a page: nothing, a single
\* role, an exchange with an unclassified side, a complete exchange in
\* either order
StrategyRoles ==
    {<< >>, <<"user">>, <<"unknown", "assistant">>, <<"user", "assistant">>,
     <<"assistant", "user">>}

\* what one strategy does on a page: it raises, or finds messages of these roles
StrategyFinds ==
    [raises : {TRUE}, roles : {<< >>}] \cup [raises : {FALSE}, roles : StrategyRoles]

\* the strategy's result: its messages carry its extraction_method
StrategyOutcome(name, finds) ==
    [raises |-> finds.raises,
     conversation |-> IF finds.roles = << >> THEN << >>
                      ELSE [j \in DOMAIN finds.roles |->
                              [role |-> finds.roles[j], extraction_method |-> name]]]

\* a page, as the chain sees it: the outcome of each strategy on it
ChainPages ==
    {[name \in StrategyNames |-> StrategyOutcome(name, finds[name])] :
        finds \in [StrategyNames -> StrategyFinds]}

\* "if conversation and self._validate_conversation_structure(conversation)";
\* a strategy that raises has produced no conversation
Accepts_nonempty(outcome) ==
    ~outcome.raises /\ outcome.conversation # << >>

Accepts(outcome) ==
    /\ ~outcome.raises
    /\ outcome.conversation # << >>
    /\ _validate_conversation_structure(outcome.conversation)

ChainCalls ==
    [fn : {"_extract_with_multiple_strategies"}, page : ChainPages, i : {1}, ran : {<< >>},
     returned : {FALSE}, conversation : {<< >>}]

\* one pass of "for i, strategy in enumerate(strategies)"
TryStrategy ==
    /\ call.fn = "_extract_with_multiple_strategies"
    /\ ~call.returned
    /\ call.i <= Len(strategies)
    /\ LET name == strategies[call.i]
           outcome == call.page[name]
       IN  call' = IF Accepts(outcome)
                   THEN [call EXCEPT !.ran = Append(@, name), !.returned = TRUE,
                                     !.conversation = outcome.conversation]
                   ELSE [call EXCEPT !.ran = Append(@, name), !.i = @ + 1]
    /\ UNCHANGED program

\* the loop is exhausted: "return []"
ChainExhausted ==
    /\ call.fn = "_extract_with_multiple_strategies"
    /\ ~call.returned
    /\ call.i > Len(strategies)
    /\ call' = [call EXCEPT !.returned = TRUE, !.conversation = << >>]
    /\ UNCHANGED program

\* ContentExtractor._guess_role_from_content.  A text is the set of the
\* listed phrases its lower-cased form contains.
user_patterns ==
    {"please", "can you", "how do i", "what is", "help me", "i want", "i need", "could you",
     "would you"}

assistant_patterns ==
    {"i can help", "here is", "here are", "to answer", "certainly", "of course",
     "i understand", "let me"}

\* "Fallback to alternating pattern"
Alternating_odd_user(position) == IF position % 2 = 1 THEN "user" ELSE "assistant"

Alternating(position) == IF position % 2 = 0 THEN "user" ELSE "assistant"

_guess_role_from_content(content, position) ==
    LET user_score == Cardinality(content.phrases \cap user_patterns)
        assistant_score == Cardinality(content.phrases \cap assistant_patterns)
    IN  IF user_score > assistant_score THEN "user"
        ELSE IF assistant_score > user_score THEN "assistant"
        ELSE Alternating(position)

\* the phrases the texts of the examined containers are made of
SamplePhrases == {"please", "can you", "here is", "certainly"}

\* inner_text() of a container: empty, or a text with some of the phrases
Texts == [empty : {TRUE}, phrases : {{}}] \cup [empty : {FALSE}, phrases : SUBSET SamplePhrases]

\* ContentExtractor._determine_role_improved.  A container is what its
\* queries answer: whether a user / assistant avatar selector matches,
\* whether class + data-testid hold a user / assistant indicator, its text;
\* raises_at is the first awaited query that raises, if any.
RaisePoints == {"none", "user_avatar", "assistant_avatar", "get_attribute", "inner_text"}

Containers ==
    [user_avatar : BOOLEAN, assistant_avatar : BOOLEAN, user_indicator : BOOLEAN,
     assistant_indicator : BOOLEAN, text : Texts, raises_at : RaisePoints]

\* the levels in the order in which the function tests them
cascade_assistant_avatar_first ==
    <<"assistant_avatar", "user_avatar", "user_attribute", "assistant_attribute", "content">>

cascade ==
    <<"user_avatar", "assistant_avatar", "user_attribute", "assistant_attribute", "content">>

\* the awaited query a level rests on
QueryOf(level) ==
    CASE level \in {"user_attribute", "assistant_attribute"} -> "get_attribute"
      [] level = "content" -> "inner_text"
      [] OTHER -> level

Fires(container, level) ==
    CASE level = "user_avatar" -> container.user_avatar
      [] level = "assistant_avatar" -> container.assistant_avatar
      [] level = "user_attribute" -> container.user_indicator
      [] level = "assistant_attribute" -> container.assistant_indicator
      [] level = "content" -> ~container.text.empty

RoleAt(container, level) ==
    CASE level \in {"user_avatar", "user_attribute"} -> "user"
      [] level \in {"assistant_avatar", "assistant_attribute"} -> "assistant"
      [] level = "content" -> _guess_role_from_content(container.text, 0)

\* from level k on; an exception in a query is logged and the default
\* "unknown" is returned, as it is when no level fires
RECURSIVE Cascade(_, _)
Cascade(container, k) ==
    IF k > Len(cascade) THEN "unknown"
    ELSE IF container.raises_at = QueryOf(cascade[k]) THEN "unknown"
    ELSE IF Fires(container, cascade[k]) THEN RoleAt(container, cascade[k])
    ELSE Cascade(container, k + 1)

_determine_role_improved(container) == Cascade(container, 1)

ClassifyCalls ==
    [fn : {"_determine_role_improved"}, container : Containers, returned : {FALSE},
     role : {"unset"}]

DetermineRole ==
    /\ call.fn = "_determine_role_improved"
    /\ ~call.returned
    /\ call' = [call EXCEPT !.returned = TRUE,
                            !.role = _determine_role_improved(call.container)]
    /\ UNCHANGED program

\* ContentExtractor._strategy_structured_extraction, the part after the
\* scan of the page.  A content is the text of its first 100 characters
\* (the n-th such text is represented by n) and the rest of it.  hash of a
\* string is a number of a bounded range, so two different strings can
\* have one hash: HashSpace + 1 and 1 do.
StructuredLimit == 50
HashSpace == 64
MaxScanned == 3
MaxOverLimit == 2

First100(content) == content.prefix

hash(string) == string % HashSpace

Unseen_always(content_hash, seen_content) == TRUE

Unseen(content_hash, seen_content) == content_hash \notin seen_content

\* "for msg in potential_messages", from the k-th message on
RECURSIVE Deduplicate(_, _, _, _)
Deduplicate(potential_messages, k, seen_content, conversation) ==
    IF k > Len(potential_messages) THEN conversation
    ELSE LET msg == potential_messages[k]
             content_hash == hash(First100(msg.content))
         IN  IF Unseen(content_hash, seen_content)
             THEN Deduplicate(potential_messages, k + 1, seen_content \cup {content_hash},
                              Append(conversation, msg))
             ELSE Deduplicate(potential_messages, k + 1, seen_content, conversation)

\* conversation[:50]
_strategy_structured_extraction(potential_messages) ==
    LET conversation == Deduplicate(potential_messages, 1, {}, << >>)
    IN  IF Len(conversation) > StructuredLimit
        THEN SubSeq(conversation, 1, StructuredLimit)
        ELSE conversation

\* what the scan collects: the elements that look like a message, in
\* document order
ScannedMessage(prefix, rest) ==
    [role |-> "unknown", content |-> [prefix |-> prefix, rest |-> rest]]

\* short documents over a few texts, two of which differ only after the
\* first 100 characters, and long documents of n different texts, alone or
\* preceded by a copy of their first element
ScannedDocuments ==
    LET few == {ScannedMessage(p, r) : p \in {1, 2, HashSpace + 1}, r \in {"", "more"}}
        long(n) == [i \in 1..n |-> ScannedMessage(i, "")]
        sizes == (StructuredLimit - 1)..(StructuredLimit + MaxOverLimit)
    IN  SeqsUpTo(few, MaxScanned)
           \cup {long(n) : n \in sizes}
           \cup {<<ScannedMessage(1, "more")>> \o long(n) : n \in sizes}

StructuredCalls ==
    [fn : {"_strategy_structured_extraction"}, potential_messages : ScannedDocuments,
     returned : {FALSE}, conversation : {<< >>}]

StructuredReturn ==
    /\ call.fn = "_strategy_structured_extraction"
    /\ ~call.returned
    /\ call' = [call EXCEPT !.returned = TRUE,
                            !.conversation =
                               _strategy_structured_extraction(call.potential_messages)]
    /\ UNCHANGED program

\* improved_validate_link on its own.  The URLs handed to it need not come
\* from generate_links; the responses are every combination of what the
\* request and the reading of the body can do.  requested records that
\* session.get was called.
ProbedUrls ==
    [prefix_ok : BOOLEAN, uuid : {1}, uuid_len : {0, MinUuidLen - 1, MinUuidLen, UuidLen}]

ProbedResponses ==
    [exception : {"none", "TimeoutError", "ClientError"}, final_url_auth : BOOLEAN,
     status : {200, 399, 400, 403, 404}, read_exception : {"none", "TimeoutError", "Exception"},
     error_indicator : BOOLEAN, positive_count : 0..3]

ProbeCalls ==
    [fn : {"improved_validate_link"}, url : ProbedUrls, resp : ProbedResponses,
     requested : {FALSE}, returned : {FALSE}, result : {"unset"}]

\* up to the await of session.get
ProbeFormatCheck ==
    /\ call.fn = "improved_validate_link"
    /\ ~call.returned
    /\ ~call.requested
    /\ call' = IF FormatOk(call.url)
               THEN [call EXCEPT !.requested = TRUE]
               ELSE [call EXCEPT !.returned = TRUE, !.result = FALSE]
    /\ UNCHANGED program

\* the request has ended, with a response or with an exception
ProbeAnswered ==
    /\ call.fn = "improved_validate_link"
    /\ ~call.returned
    /\ call.requested
    /\ call' = [call EXCEPT !.returned = TRUE,
                            !.result = improved_validate_link(call.url, call.resp)]
    /\ UNCHANGED program

\* LinkGenerator.generate_links on its own, for counts of either sign
GenerateCalls ==
    [fn : {"generate_links"}, count : (0 - MaxCount)..MaxCount, returned : {FALSE},
     links : {<< >>}]

GenerateReturn ==
    /\ call.fn = "generate_links"
    /\ ~call.returned
    /\ call' = [call EXCEPT !.returned = TRUE, !.links = generate_links(call.count, 0)]
    /\ UNCHANGED program

\* Strings of the insight service, character by character: a string is
\* the sequence of its characters, so that split, lower, isalnum, strip,
\* the regular expressions and the slices act as they do in the code.
Lowercase ==
    <<"a", "b", "c", "d", "e", "f", "g", "h", "i", "j", "k", "l", "m", "n", "o", "p",
          "q", "r", "s", "t", "u", "v", "w", "x", "y", "z">>

Uppercase ==
    <<"A", "B", "C", "D", "E", "F", "G", "H", "I", "J", "K", "L", "M", "N", "O", "P",
          "Q", "R", "S", "T", "U", "V", "W", "X", "Y", "Z">>

Digits == {"0", "1", "2", "3", "4", "5", "6", "7", "8", "9"}

Letters == {Lowercase[k] : k \in DOMAIN Lowercase} \cup {Uppercase[k] : k \in DOMAIN Uppercase}

Whitespace == {" "}

\* str.lower()
char_lower(c) ==
    IF \E k \in DOMAIN Uppercase : Uppercase[k] = c
    THEN Lowercase[CHOOSE k \in DOMAIN Uppercase : Uppercase[k] = c]
    ELSE c

str_lower(s) == [k \in DOMAIN s |-> char_lower(s[k])]

\* str.isalnum()
isalnum(s) == s # << >> /\ \A k \in DOMAIN s : s[k] \in Letters \cup Digits

\* the class \w of re
IsWordChar(c) == c \in Letters \cup Digits \cup {"_"}

\* str.split(): the maximal runs of non-whitespace characters
RECURSIVE SplitFrom(_, _, _, _)
SplitFrom(s, k, word, words) ==
    IF k > Len(s) THEN (IF word = << >> THEN words ELSE Append(words, word))
    ELSE IF s[k] \in Whitespace
         THEN SplitFrom(s, k + 1, << >>, IF word = << >> THEN words ELSE Append(words, word))
         ELSE SplitFrom(s, k + 1, Append(word, s[k]), words)

split(s) == SplitFrom(s, 1, << >>, << >>)

\* str.strip(chars)
strip(s, chars) ==
    LET inner == {k \in DOMAIN s : s[k] \notin chars}
        lo == CHOOSE k \in inner : \A j \in inner : k <= j
        hi == CHOOSE k \in inner : \A j \in inner : k >= j
    IN  IF inner = {} THEN << >> ELSE SubSeq(s, lo, hi)

\* sep.join(strings)
RECURSIVE join(_, _)
join(sep, strings) ==
    IF strings = << >> THEN << >>
    ELSE IF Len(strings) = 1 THEN strings[1]
    ELSE strings[1] \o sep \o join(sep, Tail(strings))

\* s[:n]
Take_all(s, n) == s

Take(s, n) == IF Len(s) > n THEN SubSeq(s, 1, n) ELSE s

\* literal occurs in s at position k
OccursAt(s, k, literal) ==
    /\ k + Len(literal) - 1 <= Len(s)
    /\ \A j \in DOMAIN literal : s[k + j - 1] = literal[j]

\* the longest run of \w characters of s that starts at position k
RECURSIVE WordRun(_, _)
WordRun(s, k) ==
    IF k > Len(s) \/ ~IsWordChar(s[k]) THEN << >>
    ELSE <<s[k]>> \o WordRun(s, k + 1)

\* re.search(literal + r"(\w+)", s): group 1 of the leftmost match, the
\* empty string standing for "no match"
search(literal, s) ==
    LET matches == {k \in DOMAIN s : OccursAt(s, k, literal)
                                     /\ WordRun(s, k + Len(literal)) # << >>}
        leftmost == CHOOSE k \in matches : \A j \in matches : k <= j
    IN  IF matches = {} THEN << >> ELSE WordRun(s, leftmost + Len(literal))

\* the literal parts of name_patterns: "my name is ", "i'm ", "i am ",
\* "call me "
name_patterns ==
    <<<<"m", "y", " ", "n", "a", "m", "e", " ", "i", "s", " ">>,
      <<"i", "'", "m", " ">>,
      <<"i", " ", "a", "m", " ">>,
      <<"c", "a", "l", "l", " ", "m", "e", " ">>>>

\* "for pattern in name_patterns" from the k-th pattern on; default is the
\* value user_name has before the loop
RECURSIVE DeclaredName(_, _, _)
DeclaredName(text, k, default) ==
    IF k > Len(name_patterns) THEN default
    ELSE IF search(name_patterns[k], text) # << >> THEN search(name_patterns[k], text)
    ELSE DeclaredName(text, k + 1, default)

\* [msg['content'] for msg in conversation_data if msg.get('role') == role]
ContentsOf(conversation_data, role) ==
    LET has_role(msg) == msg.role = role
        selected == SelectSeq(conversation_data, has_role)
    IN  [k \in DOMAIN selected |-> selected[k].content]

\* "conversation_" followed by the time of the call
Timestamped(now) ==
    <<"c", "o", "n", "v", "e", "r", "s", "a", "t", "i", "o", "n", "_">> \o now

\* the words of the summary: "for word in words if word.isalnum()"
KeepsWord_any(word) == TRUE

KeepsWord(word) == isalnum(word)

\* re.sub(r'[^\w\-_]', '', title)
Cleaned(title) ==
    LET kept(c) == IsWordChar(c) \/ c = "-"
    IN  SelectSeq(title, kept)

TitleLimit == 50
SummaryWords == 5

\* InsightExtractor.generate_title, character by character
GenerateTitle(conversation_data, now) ==
    LET of_user == ContentsOf(conversation_data, "user")
        first_user_msg == of_user[1]
    IN  IF of_user = << >> THEN Timestamped(now)
        ELSE IF first_user_msg = << >> THEN Timestamped(now)
        ELSE LET user_name == DeclaredName(str_lower(first_user_msg), 1, <<"u", "s", "e", "r">>)
                 words == Take(split(first_user_msg), SummaryWords)
                 kept == SelectSeq(words, KeepsWord)
                 summary == join(<<"_">>,
                                 [k \in DOMAIN kept |->
                                     strip(str_lower(kept[k]), {".", ",", "!", "?"})])
                 title == Take(Cleaned(user_name \o <<"_">> \o summary), TitleLimit)
             IN  IF title # << >> THEN title ELSE Timestamped(now)

\* the texts of the transcripts the insight service is called with
\* "my name is Sam, how do I reset a password"
SamComma ==
    <<"m", "y", " ", "n", "a", "m", "e", " ", "i", "s", " ", "S", "a", "m", ",", " ",
          "h", "o", "w", " ", "d", "o", " ", "I", " ", "r", "e", "s", "e", "t", " ",
          "a", " ", "p", "a", "s", "s", "w", "o", "r", "d">>

\* "my name is Sam how do I reset a password"
SamPlain ==
    <<"m", "y", " ", "n", "a", "m", "e", " ", "i", "s", " ", "S", "a", "m", " ", "h",
          "o", "w", " ", "d", "o", " ", "I", " ", "r", "e", "s", "e", "t", " ", "a",
          " ", "p", "a", "s", "s", "w", "o", "r", "d">>

\* "How do I reset a password?"
ResetQuestion ==
    <<"H", "o", "w", " ", "d", "o", " ", "I", " ", "r", "e", "s", "e", "t", " ", "a",
          " ", "p", "a", "s", "s", "w", "o", "r", "d", "?">>

\* "Hi, I'm Al."
HiAl ==
    <<"H", "i", ",", " ", "I", "'", "m", " ", "A", "l", ".">>

\* "call me Maximilian understanding international telecommunications"
LongWords ==
    <<"c", "a", "l", "l", " ", "m", "e", " ", "M", "a", "x", "i", "m", "i", "l", "i",
          "a", "n", " ", "u", "n", "d", "e", "r", "s", "t", "a", "n", "d", "i", "n",
          "g", " ", "i", "n", "t", "e", "r", "n", "a", "t", "i", "o", "n", "a", "l",
          " ", "t", "e", "l", "e", "c", "o", "m", "m", "u", "n", "i", "c", "a", "t",
          "i", "o", "n", "s">>

\* "Here is how: open the settings page"
HereIsHow ==
    <<"H", "e", "r", "e", " ", "i", "s", " ", "h", "o", "w", ":", " ", "o", "p", "e",
          "n", " ", "t", "h", "e", " ", "s", "e", "t", "t", "i", "n", "g", "s", " ",
          "p", "a", "g", "e">>

UserTexts == {SamComma, SamPlain, ResetQuestion, HiAl, LongWords, << >>}

\* the time of a call, as strftime('%Y%m%d_%H%M%S') prints it
Instants ==
    {<<"2", "0", "2", "4", "0", "1", "0", "1", "_", "0", "0", "0", "0", "0", "0">>,
     <<"2", "0", "2", "4", "0", "1", "0", "1", "_", "0", "0", "0", "0", "0", "1">>}

\* a user text first or second, or no user message at all
TitleTranscripts ==
    LET msg(role, content) == [role |-> role, content |-> content]
    IN  {<<msg("user", text), msg("assistant", HereIsHow)>> : text \in UserTexts}
           \cup {<<msg("assistant", HereIsHow), msg("user", text)>> : text \in UserTexts}
           \cup {<<msg("unknown", text), msg("user", ResetQuestion)>> : text \in UserTexts}
           \cup {<< >>, <<msg("assistant", HereIsHow)>>, <<msg("unknown", SamComma)>>}

TitleCalls ==
    [fn : {"generate_title"}, conversation_data : TitleTranscripts, now : Instants,
     returned : {FALSE}, title : {<< >>}]

GenerateTitleReturn ==
    /\ call.fn = "generate_title"
    /\ ~call.returned
    /\ call' = [call EXCEPT !.returned = TRUE,
                            !.title = GenerateTitle(call.conversation_data, call.now)]
    /\ UNCHANGED program

\* InsightExtractor._generate_fallback_insights.  None is the one value
\* that is no string: a sequence whose element is not a character.
None == <<"None">>

\* "thank you, that was great"
ThanksGreat ==
    <<"t", "h", "a", "n", "k", " ", "y", "o", "u", ",", " ", "t", "h", "a", "t", " ",
          "w", "a", "s", " ", "g", "r", "e", "a", "t">>

\* "Sorry, there was an error and a problem"
SorryError ==
    <<"S", "o", "r", "r", "y", ",", " ", "t", "h", "e", "r", "e", " ", "w", "a", "s",
          " ", "a", "n", " ", "e", "r", "r", "o", "r", " ", "a", "n", "d", " ", "a",
          " ", "p", "r", "o", "b", "l", "e", "m">>

positive_words ==
    <<<<"g", "o", "o", "d">>,
      <<"g", "r", "e", "a", "t">>,
      <<"e", "x", "c", "e", "l", "l", "e", "n", "t">>,
      <<"t", "h", "a", "n", "k">>,
      <<"h", "e", "l", "p", "f", "u", "l">>,
      <<"a", "m", "a", "z", "i", "n", "g">>>>

negative_words ==
    <<<<"b", "a", "d">>,
      <<"t", "e", "r", "r", "i", "b", "l", "e">>,
      <<"a", "w", "f", "u", "l">>,
      <<"p", "r", "o", "b", "l", "e", "m">>,
      <<"i", "s", "s", "u", "e">>,
      <<"e", "r", "r", "o", "r">>>>

\* "word in all_text"
Contains(s, literal) == \E k \in DOMAIN s : OccursAt(s, k, literal)

\* sum(1 for word in words if word in all_text)
CountIn(words, all_text) == Cardinality({k \in DOMAIN words : Contains(all_text, words[k])})

\* the words of the user's messages only
Sentiment_user_only(user_messages, assistant_messages) ==
    LET all_text == str_lower(join(<<" ">>, user_messages))
        pos_count == CountIn(positive_words, all_text)
        neg_count == CountIn(negative_words, all_text)
    IN  IF pos_count > neg_count THEN "positive"
        ELSE IF neg_count > pos_count THEN "negative"
        ELSE "neutral"

Sentiment(user_messages, assistant_messages) ==
    LET all_text == str_lower(join(<<" ">>, user_messages \o assistant_messages))
        pos_count == CountIn(positive_words, all_text)
        neg_count == CountIn(negative_words, all_text)
    IN  IF pos_count > neg_count THEN "positive"
        ELSE IF neg_count > pos_count THEN "negative"
        ELSE "neutral"

\* the first few words of the first user message
MainTopic_none_without_user(user_messages) ==
    IF user_messages # << >>
    THEN join(<<" ">>, Take(split(user_messages[1]), SummaryWords))
    ELSE None

MainTopic(user_messages) ==
    IF user_messages # << >>
    THEN join(<<" ">>, Take(split(user_messages[1]), SummaryWords))
    ELSE <<"G", "e", "n", "e", "r", "a", "l", " ", "c", "o", "n", "v", "e", "r", "s", "a",
               "t", "i", "o", "n">>

_generate_fallback_insights(conversation_data, now) ==
    LET user_messages == ContentsOf(conversation_data, "user")
        assistant_messages == ContentsOf(conversation_data, "assistant")
    IN  [user_name |-> IF user_messages # << >>
                       THEN DeclaredName(str_lower(user_messages[1]), 1, None)
                       ELSE None,
         user_background |-> <<"N", "o", "t", " ", "s", "p", "e", "c", "i", "f", "i", "e", "d">>,
         main_topic |-> MainTopic(user_messages),
         problem_described |-> IF user_messages # << >> THEN user_messages[1]
                               ELSE <<"N", "o", " ", "p", "r", "o", "b", "l", "e", "m", " ", "s", "p", "e", "c", "i",
                                         "f", "i", "e", "d">>,
         solution_provided |-> IF assistant_messages # << >> THEN assistant_messages[1]
                               ELSE <<"N", "o", " ", "s", "o", "l", "u", "t", "i", "o", "n", " ", "p", "r", "o", "v",
                                         "i", "d", "e", "d">>,
         tags |-> <<<<"c", "o", "n", "v", "e", "r", "s", "a", "t", "i", "o", "n">>,
                    <<"c", "h", "a", "t">>>>,
         sentiment |-> Sentiment(user_messages, assistant_messages),
         created_at |-> now]

\* InsightExtractor._parse_json_response.  A reply of the model is what
\* json.loads makes of it as a whole (direct, when direct_ok) and what the
\* search for a brace-delimited block finds in it: nothing, a block that is
\* no JSON, or an object.  A parsed value is its Python type and its truth
\* value; an object also has its keys and the value under "sentiment".
InsightKeys ==
    {"user_name", "user_background", "main_topic", "problem_described", "solution_provided",
     "tags", "sentiment", "created_at"}

Json(type, truthy) == [type |-> type, truthy |-> truthy, keys |-> {}, sentiment |-> "absent"]

Object(keys, sentiment) ==
    [type |-> "dict", truthy |-> keys # {}, keys |-> keys, sentiment |-> sentiment]

\* the object the prompt asks for
RequestedObject == Object(InsightKeys, "positive")

PyNone == Json("NoneType", FALSE)

Reply(direct_ok, direct, block) == [direct_ok |-> direct_ok, direct |-> direct, block |-> block]

Replies ==
    {Reply(TRUE, RequestedObject, "object"),          \* {"user_name": ..., all eight keys}
     Reply(TRUE, Object({"main_topic", "tags"}, "absent"), "object"),  \* {"main_topic": ..., "tags": ...}
     Reply(TRUE, Object(InsightKeys, "mixed"), "object"),              \* all keys, "sentiment": "mixed"
     Reply(TRUE, Object({}, "absent"), "empty_object"), \* {}
     Reply(FALSE, PyNone, "object"),                   \* Here you go: {"user_name": ...}
     Reply(FALSE, PyNone, "none"),                     \* I cannot analyze this.
     Reply(FALSE, PyNone, "invalid"),                  \* use {braces} freely
     Reply(FALSE, PyNone, "empty_object"),             \* Nothing to report: {}
     Reply(TRUE, Json("list", TRUE), "none"),          \* [1, 2]
     Reply(TRUE, Json("list", TRUE), "object"),        \* [{"user_name": ...}]
     Reply(TRUE, Json("list", FALSE), "none"),         \* []
     Reply(TRUE, Json("int", TRUE), "none"),           \* 42
     Reply(TRUE, Json("int", FALSE), "none"),          \* 0
     Reply(TRUE, Json("str", TRUE), "none"),           \* "sorry"
     Reply(TRUE, Json("bool", TRUE), "none"),          \* true
     Reply(TRUE, PyNone, "none")}                      \* null

_parse_json_response(content) ==
    IF content.direct_ok THEN content.direct
    ELSE IF content.block = "object" THEN RequestedObject
    ELSE IF content.block = "empty_object" THEN Object({}, "absent")
    ELSE PyNone

\* InsightExtractor.extract_insights.  llm is what the request does: post
\* is the exception session.post raises ("none" when a response arrives),
\* body whether response.json() finds a JSON document with the reply in
\* message.content.
OkLlm ==
    [post |-> "none", status |-> 200, body |-> "json",
     content |-> Reply(TRUE, RequestedObject, "object")]

LlmOutcomes ==
    {[OkLlm EXCEPT !.content = reply] : reply \in Replies}
       \cup {[OkLlm EXCEPT !.post = "TimeoutError"],
             [OkLlm EXCEPT !.post = "ClientError"],
             [OkLlm EXCEPT !.status = 500],
             [OkLlm EXCEPT !.status = 404],
             [OkLlm EXCEPT !.body = "not_json"]}

\* the value returned is the fallback dict or the parsed reply
extract_insights(conversation_data, llm, now) ==
    LET fallback == [from |-> "fallback",
                     insights |-> _generate_fallback_insights(conversation_data, now)]
    IN  IF llm.post # "none" THEN fallback
        ELSE IF llm.status # 200 THEN fallback
        ELSE IF llm.body # "json" THEN fallback
        ELSE LET insights == _parse_json_response(llm.content)
             IN  IF insights.truthy THEN [from |-> "llm", insights |-> insights]
                 ELSE fallback

\* process_single_link, step 5: "if insights:" and json.dump(insights, f);
\* the set of values written to insights_json for a returned value
InsightsWritten(returned) ==
    IF returned.from = "fallback" \/ returned.insights.truthy THEN {returned} ELSE {}

InsightTexts == {SamComma, ResetQuestion, ThanksGreat, SorryError, HereIsHow}

InsightTranscripts == SeqsUpTo([role : Roles, content : InsightTexts], MaxMsgs)

\* the time of a call, as isoformat() prints it
IsoInstants ==
    {<<"2", "0", "2", "4", "-", "0", "1", "-", "0", "1", "T", "0", "0", ":", "0", "0",
           ":", "0", "0", ".", "0", "0", "0", "0", "0", "1">>}

InsightCalls ==
    [fn : {"extract_insights"}, conversation_data : InsightTranscripts, llm : LlmOutcomes,
     now : IsoInstants, returned : {FALSE}, result : {[from |-> "unset"]}]

ExtractInsightsReturn ==
    /\ call.fn = "extract_insights"
    /\ ~call.returned
    /\ call' = [call EXCEPT !.returned = TRUE,
                            !.result = extract_insights(call.conversation_data, call.llm,
                                                        call.now)]
    /\ UNCHANGED program

\* _guess_role_from_content on its own: the strategies call it with the
\* index of the element, _determine_role_improved with 0
GuessCalls ==
    [fn : {"_guess_role_from_content"}, content : [empty : {FALSE}, phrases : SUBSET SamplePhrases],
     position : 0..MaxPosition, returned : {FALSE}, role : {"unset"}]

GuessRole ==
    /\ call.fn = "_guess_role_from_content"
    /\ ~call.returned
    /\ call' = [call EXCEPT !.returned = TRUE,
                            !.role = _guess_role_from_content(call.content, call.position)]
    /\ UNCHANGED program

Calls == ChainCalls \cup ClassifyCalls \cup StructuredCalls \cup ProbeCalls \cup GenerateCalls
         \cup TitleCalls \cup InsightCalls \cup GuessCalls

InitCall ==
    /\ Constructed
    /\ caps = [batches |-> 0, errors |-> 0, valid |-> 0, starts |-> 0, faults |-> 0]
    /\ call \in Calls

CallNext ==
    \/ TryStrategy
    \/ ChainExhausted
    \/ DetermineRole
    \/ StructuredReturn
    \/ ProbeFormatCheck
    \/ ProbeAnswered
    \/ GenerateReturn
    \/ GenerateTitleReturn
    \/ ExtractInsightsReturn
    \/ GuessRole

CallSpec == InitCall /\ [][CallNext]_vars

(***************************************************************************)
(* Properties.                                                             *)
(***************************************************************************)
Live == {"created", "gather", "cooldown", "interval", "recover"}

\* C1: at every moment at most SemaphoreLimit (3) runs of a worker's batch
\* are executing process_single_link, although the batch holds more
\* candidates; slots in use and free slots always add up to the limit.
C1_BoundedConcurrency ==
    \A w \in Workers :
        /\ Cardinality(InFlight(w)) <= SemaphoreLimit
        /\ (\E i \in DOMAIN runs[w] : runs[w][i].pc # "pending")
              => semaphore[w] + Cardinality(InFlight(w)) = SemaphoreLimit

C1_Witness ==
    \E w \in Workers :
        /\ Len(runs[w]) > SemaphoreLimit
        /\ Cardinality(InFlight(w)) = SemaphoreLimit
        /\ \E i \in InFlight(w) : i > SemaphoreLimit
        /\ \E i \in DOMAIN runs[w] : runs[w][i].pc = "done"

\* C2: a worker leaves gather (and so goes on to sleep and to generate its
\* next batch) only when every run of the current batch is done, and it
\* generates a batch only when no run of an earlier batch of its own exists.
C2_BatchesSequential ==
    [][\A w \in Workers :
          /\ (wpc[w] = "gather" /\ wpc'[w] \in {"cooldown", "interval"})
                => \A i \in DOMAIN runs[w] : runs[w][i].pc = "done"
          /\ (wpc[w] # "gather" /\ wpc'[w] = "gather")
                => /\ InFlight(w) = {} /\ Waiting(w) = {}
                   /\ \A i \in DOMAIN runs'[w] :
                         runs'[w][i].pc = "pending" /\ runs'[w][i].url.uuid > links_generated]_vars

C2_Witness ==
    \E w \in Workers :
        /\ wpc[w] = "gather"
        /\ links_generated >= 2 * BatchSize
        /\ runs[w] # << >>
        /\ runs[w][1].url.uuid > BatchSize
        /\ InFlight(w) # {}
        /\ successful[w] + consecutive_failures[w] > 0

\* C3: whatever fails inside a run (probe, render, directory creation,
\* transcript write, insight write), the run ends by returning None or a
\* PipelineResult; the only other way a run ends is the cancellation of its
\* worker, and no worker ever fails.
C3_NoErrorEscapes ==
    \A w \in Workers :
        /\ wpc[w] # "failed"
        /\ \A i \in DOMAIN runs[w] :
              runs[w][i].pc = "done" =>
                 \/ runs[w][i].result \in {"None", "Result"}
                 \/ runs[w][i].result = "Cancelled" /\ cancel_requested[w] /\ runs[w][i].error = "none"

C3_Witness ==
    \E w \in Workers : \E i \in DOMAIN runs[w] :
        /\ runs[w][i].pc = "done"
        /\ runs[w][i].error = "mkdir"
        /\ runs[w][i].result = "None"
        /\ ~cancel_requested[w]

\* C4: while is_running is set the current worker is alive (it has neither
\* returned nor failed nor been cancelled), also after an error in the loop
\* body; a worker ends only after a stop has cancelled it.
C4_NeverExitsByItself ==
    /\ is_running => background_task \in Workers /\ wpc[background_task] \in Live
    /\ \A w \in Workers : Done(w) => cancel_requested[w] /\ wpc[w] = "cancelled"

C4_Witness ==
    /\ is_running
    /\ errors >= 1
    /\ wpc[background_task] = "gather"
    /\ consecutive_failures[background_task] >= 1
    /\ links_generated = BatchSize

\* C5: once a stop has been requested no batch is generated (links_generated
\* stays as it is while is_running is clear, and the cancelled worker takes
\* no step but its termination), and every cancelled worker eventually
\* terminates.
C5_StopStopsWorker ==
    /\ [][/\ ~is_running => links_generated' = links_generated
          /\ \A w \in Workers :
                cancel_requested[w] => wpc'[w] \in {wpc[w], "cancelled"}]_vars
    /\ \A w \in Workers : cancel_requested[w] ~> wpc[w] = "cancelled"

C5_Witness ==
    \E w \in Workers :
        /\ cancel_requested[w]
        /\ wpc[w] = "gather"
        /\ ~is_running
        /\ \E i \in DOMAIN runs[w] : runs[w][i].result = "Cancelled"
        /\ \E i \in DOMAIN runs[w] : runs[w][i].swallowed /\ runs[w][i].pc # "done"

\* C6: when a batch with at least one success has been counted,
\* consecutive_failures is 0 during the sleeps before the next batch,
\* whatever it was before.
C6_SuccessResets ==
    \A w \in Workers :
        (wpc[w] \in {"cooldown", "interval"} /\ successful[w] > 0) => consecutive_failures[w] = 0

C6_Witness ==
    \E w \in Workers :
        /\ wpc[w] = "interval"
        /\ successful[w] > 0
        /\ failures_before[w] > 0
        /\ consecutive_failures[w] = 0

\* C7 as stated: the cooldown sleep is entered only at the crossing of the
\* threshold, i.e. with the counter at exactly 3.
C7_CooldownOncePerCrossing ==
    \A w \in Workers : wpc[w] = "cooldown" => consecutive_failures[w] = FailureThreshold

\* C7 amended: after a counted batch the cooldown sleep is entered exactly
\* when the batch had no success and the counter is then 3 or more; so never
\* below 3, and again after every further zero-success batch.
C7_CooldownAtOrAboveThreshold ==
    [][\A w \in Workers :
          (wpc[w] = "gather" /\ wpc'[w] \in {"cooldown", "interval"})
             => (wpc'[w] = "cooldown"
                   <=> (successful'[w] = 0 /\ consecutive_failures'[w] >= FailureThreshold))]_vars

C7_Witness ==
    \E w \in Workers :
        /\ wpc[w] = "cooldown"
        /\ successful[w] = 0
        /\ failures_before[w] = FailureThreshold
        /\ consecutive_failures[w] = FailureThreshold + 1

\* C8: a run whose probe is not Accessible returns None in the step in which
\* the probe returns; that step adds exactly 1 to failed_validations and
\* leaves valid_links, insights_extracted and both directories unchanged,
\* and the run never starts an extraction.
C8_ProbeFailureDiscards ==
    /\ [][\A w \in Workers : \A i \in DOMAIN runs[w] :
             (/\ i \in DOMAIN runs'[w]
              /\ runs[w][i].pc = "probe"
              /\ runs'[w][i].is_valid = "False")
                => /\ runs'[w][i].pc = "done"
                   /\ runs'[w][i].result = "None"
                   /\ failed_validations' = failed_validations + 1
                   /\ valid_links' = valid_links
                   /\ insights_extracted' = insights_extracted
                   /\ valid_jsons' = valid_jsons
                   /\ insights_json' = insights_json]_vars
    /\ [](\A w \in Workers : \A i \in DOMAIN runs[w] :
             runs[w][i].is_valid = "False"
                => /\ ~runs[w][i].extract_started
                   /\ runs[w][i].pc = "done"
                   /\ runs[w][i].result = "None")

C8_Witness ==
    \E w \in Workers : \E i \in DOMAIN runs[w] :
        /\ runs[w][i].is_valid = "False"
        /\ runs[w][i].result = "None"
        /\ failed_validations = 1
        /\ valid_links = 0

\* C9: a run whose transcript write failed has returned None without
\* starting the insight generation, and every file of insights_json has a
\* completely written file of the same name in valid_jsons.
C9_NoInsightWithoutTranscript ==
    /\ \A w \in Workers : \A i \in DOMAIN runs[w] :
          runs[w][i].conversation_file = "failed"
             => /\ runs[w][i].pc = "done"
                /\ runs[w][i].result = "None"
                /\ ~runs[w][i].insights_started
                /\ Filename(runs[w][i].title, runs[w][i].url) \notin Names(insights_json)
    /\ \A f \in insights_json :
          [name |-> f.name, content |-> "complete"] \in valid_jsons

C9_Witness ==
    \E w \in Workers : \E i \in DOMAIN runs[w] :
        /\ runs[w][i].conversation_file = "failed"
        /\ Len(runs[w][i].messages) >= MinInsightMessages
        /\ runs[w][i].result = "None"
        /\ Filename(runs[w][i].title, runs[w][i].url) \in Names(valid_jsons)

\* C10: insight generation is started only for a transcript of at least 2
\* messages; a run with a 1-message transcript in which no stage failed
\* (directory creation and transcript write are the stages such a run has
\* left) has ended, in the step in which the extraction returned, with the
\* transcript file completely written, a non-null result without insight
\* reference, no insight file of its name, and insights_extracted unchanged.
C10_InsightsNeedTwoMessages ==
    /\ [](\A w \in Workers : \A i \in DOMAIN runs[w] :
             /\ runs[w][i].insights_started => Len(runs[w][i].messages) >= MinInsightMessages
             /\ (Len(runs[w][i].messages) = 1 /\ runs[w][i].error = "none")
                   => /\ runs[w][i].pc = "done"
                      /\ runs[w][i].result = "Result"
                      /\ runs[w][i].conversation_file = "written"
                      /\ runs[w][i].insights_file = "unset"
                      /\ [name |-> Filename(runs[w][i].title, runs[w][i].url), content |-> "complete"]
                            \in valid_jsons
                      /\ Filename(runs[w][i].title, runs[w][i].url) \notin Names(insights_json))
    /\ [][\A w \in Workers : \A i \in DOMAIN runs[w] :
             (/\ i \in DOMAIN runs'[w]
              /\ runs[w][i].pc = "extract"
              /\ Len(runs'[w][i].messages) = 1)
                => insights_extracted' = insights_extracted]_vars

C10_Witness ==
    \E w \in Workers : \E i \in DOMAIN runs[w] :
        /\ Len(runs[w][i].messages) = 1
        /\ runs[w][i].conversation_file = "written"
        /\ runs[w][i].result = "Result"
        /\ valid_links > insights_extracted

\* C11: a run whose insight file could not be written (open or json.dump
\* failed) after its transcript was persisted has returned a non-null result
\* that references the transcript and carries no insight reference, and the
\* step in which that happened left insights_extracted and the transcript
\* directory unchanged.
C11_InsightFailureKeepsTranscript ==
    /\ [](\A w \in Workers : \A i \in DOMAIN runs[w] :
             runs[w][i].insights_file = "failed"
                => /\ runs[w][i].pc = "done"
                   /\ runs[w][i].result = "Result"
                   /\ ~runs[w][i].insights_ref
                   /\ runs[w][i].conversation_file = "written"
                   /\ [name |-> Filename(runs[w][i].title, runs[w][i].url), content |-> "complete"]
                         \in valid_jsons)
    /\ [][\A w \in Workers : \A i \in DOMAIN runs[w] :
             (/\ i \in DOMAIN runs'[w]
              /\ runs[w][i].pc = "insights"
              /\ runs'[w][i].insights_file = "failed")
                => /\ insights_extracted' = insights_extracted
                   /\ valid_jsons' = valid_jsons]_vars

C11_Witness ==
    \E w \in Workers : \E i \in DOMAIN runs[w] :
        /\ runs[w][i].insights_file = "failed"
        /\ runs[w][i].result = "Result"
        /\ Filename(runs[w][i].title, runs[w][i].url) \in Names(insights_json)
        /\ insights_extracted = 0
        /\ ~cancel_requested[w]

\* C12: a run whose title generation failed goes on with a placeholder title
\* (the fixed one when the exception left generate_title) to the transcript
\* write, and ends with a non-null result unless a later stage failed; every
\* other stage that fails before the transcript is persisted (probe, render,
\* directory creation, transcript write) ends the run with None.
C12_TitleFailureTolerated ==
    \A w \in Workers : \A i \in DOMAIN runs[w] :
        LET run == runs[w][i]
        IN  /\ run.title_error = "raises" => run.title = PlaceholderTitle
            /\ run.title_error = "body_error" => run.title = "conversation_timestamp"
            /\ (run.title_error \in {"raises", "body_error"} /\ run.error \in {"none", "insights_write"})
                  => /\ run.conversation_file = "written"
                     /\ Filename(run.title, run.url) \in Names(valid_jsons)
                     /\ run.pc = "done" => run.result \in {"Result", "Cancelled"}
            /\ (run.pc = "done" /\ (run.is_valid = "False"
                                      \/ run.error \in {"render", "empty", "banners", "mkdir",
                                                       "transcript_write"}))
                  => run.result = "None"

C12_Witness ==
    \E w \in Workers : \E i \in DOMAIN runs[w] :
        /\ runs[w][i].title_error = "raises"
        /\ runs[w][i].title = PlaceholderTitle
        /\ runs[w][i].result = "Result"
        /\ [name |-> Filename(PlaceholderTitle, runs[w][i].url), content |-> "complete"] \in valid_jsons

\* C13: no step decreases links_generated, valid_links, insights_extracted
\* or failed_validations; a start request (also one that follows a stop)
\* and a stop request leave all four as they are.
C13_CountersMonotonic ==
    [][/\ links_generated' >= links_generated
       /\ valid_links' >= valid_links
       /\ insights_extracted' >= insights_extracted
       /\ failed_validations' >= failed_validations
       /\ is_running' # is_running => counters' = counters]_vars

C13_Witness ==
    /\ is_running
    /\ \E w \in Workers : wpc[w] = "cancelled" /\ w # background_task
    /\ wpc[background_task] \in Live
    /\ links_generated = BatchSize
    /\ failed_validations > 0
    /\ valid_links > 0

\* C14: as long as no worker has been cancelled, every run that has got its
\* probe result has been counted exactly once in valid_links or
\* failed_validations, so that at the step in which a batch of BatchSize
\* candidates is complete the sum of the two has grown by BatchSize since the
\* batch was generated, whatever the order in which the runs returned.
C14_NoLostIncrement ==
    /\ []((\A w \in Workers : ~cancel_requested[w])
            => valid_links + failed_validations
                 = Cardinality({n \in 1..links_generated :
                                  \A w \in Workers : \A i \in DOMAIN runs[w] :
                                     runs[w][i].url.uuid = n => runs[w][i].is_valid # "unset"}))
    /\ [][\A w \in Workers :
             (wpc[w] = "gather" /\ wpc'[w] \in {"cooldown", "interval"})
                => /\ valid_links' + failed_validations' = links_generated'
                   /\ links_generated' % BatchSize = 0]_vars

C14_Witness ==
    \E w \in Workers :
        /\ wpc[w] = "interval"
        /\ ~cancel_requested[w]
        /\ links_generated = 2 * BatchSize
        /\ valid_links + failed_validations = 2 * BatchSize
        /\ valid_links > 0

\* C15: the chain runs the strategies in the order modern, alternative,
\* generic, structured, fallback and stops at the first whose outcome is
\* structurally valid: the strategies run are exactly those up to and
\* including the first valid one (all five when there is none), the result
\* is that strategy's conversation, and a strategy that raises is passed
\* over like one that returns nothing.
C15_FirstValidStrategyWins ==
    LET order == <<"modern_selectors", "alternative_selectors", "generic_selectors",
                   "structured_extraction", "fallback_pattern">>
        valid(k) == /\ ~call.page[order[k]].raises
                    /\ \E j \in DOMAIN call.page[order[k]].conversation :
                          call.page[order[k]].conversation[j].role = "user"
                    /\ \E j \in DOMAIN call.page[order[k]].conversation :
                          call.page[order[k]].conversation[j].role = "assistant"
        firsts == {k \in 1..5 : valid(k) /\ \A l \in 1..(k - 1) : ~valid(l)}
    IN  call.fn = "_extract_with_multiple_strategies" =>
          /\ \A k \in DOMAIN call.ran : call.ran[k] = order[k]
          /\ call.returned =>
                \A k \in firsts :
                   /\ Len(call.ran) = k
                   /\ call.conversation = call.page[order[k]].conversation
                   /\ \A j \in DOMAIN call.conversation :
                         call.conversation[j].extraction_method = order[k]
          /\ (call.returned /\ firsts = {}) => Len(call.ran) = 5

C15_Witness ==
    /\ call.fn = "_extract_with_multiple_strategies"
    /\ call.returned
    /\ call.page["modern_selectors"].conversation = << >>
    /\ ~call.page["modern_selectors"].raises
    /\ call.ran = <<"modern_selectors", "alternative_selectors">>
    /\ call.conversation = call.page["alternative_selectors"].conversation
    /\ call.page["generic_selectors"].raises
    /\ Accepts(call.page["fallback_pattern"])

\* C16: the result of the chain is empty or holds a user and an assistant
\* message, and it is empty exactly when no strategy returned (without
\* raising) a conversation that holds both.
C16_ChainResultValidOrEmpty ==
    (call.fn = "_extract_with_multiple_strategies" /\ call.returned) =>
       LET both(conversation) ==
               /\ \E j \in DOMAIN conversation : conversation[j].role = "user"
               /\ \E j \in DOMAIN conversation : conversation[j].role = "assistant"
       IN  /\ call.conversation = << >> \/ both(call.conversation)
           /\ call.conversation = << >>
                 <=> \A name \in DOMAIN call.page :
                        call.page[name].raises \/ ~both(call.page[name].conversation)

C16_Witness ==
    /\ call.fn = "_extract_with_multiple_strategies"
    /\ call.returned
    /\ call.conversation = << >>
    /\ \E name \in DOMAIN call.page : Len(call.page[name].conversation) = 2
    /\ \E name \in DOMAIN call.page : call.page[name].raises

\* C17 as stated: every run whose transcript was persisted holds, in the
\* messages it persisted (those left by the banner filter), at least one
\* user and at least one assistant message.
C17_PersistedHasBothRoles ==
    \A w \in Workers : \A i \in DOMAIN runs[w] :
        runs[w][i].conversation_file = "written"
           => /\ \E j \in DOMAIN runs[w][i].messages : runs[w][i].messages[j].role = "user"
              /\ \E j \in DOMAIN runs[w][i].messages : runs[w][i].messages[j].role = "assistant"

\* C18: no message of a transcript a run got from the extraction holds the
\* banner phrase, in whatever case; and when the filter removes every
\* message of a non-empty chain result the run returns None in that step,
\* without a title, writing no file and changing no counter.
C18_BannersFiltered ==
    /\ [](\A w \in Workers : \A i \in DOMAIN runs[w] :
             /\ \A j \in DOMAIN runs[w][i].messages :
                   runs[w][i].messages[j].content
                      \notin {"unable to load conversation", "Unable To Load Conversation"}
             /\ runs[w][i].error = "banners"
                   => /\ runs[w][i].pc = "done"
                      /\ runs[w][i].result = "None"
                      /\ runs[w][i].messages = << >>
                      /\ runs[w][i].conversation_file = "unset"
                      /\ runs[w][i].insights_file = "unset")
    /\ [][\A w \in Workers : \A i \in DOMAIN runs[w] :
             (i \in DOMAIN runs'[w] /\ runs[w][i].pc = "extract" /\ runs'[w][i].error = "banners")
                => /\ valid_jsons' = valid_jsons
                   /\ insights_json' = insights_json
                   /\ counters' = counters]_vars

C18_Witness ==
    /\ \E w \in Workers : \E i \in DOMAIN runs[w] :
          /\ runs[w][i].error = "banners"
          /\ runs[w][i].result = "None"
          /\ valid_links = 1
          /\ valid_jsons = {}
          /\ ~cancel_requested[w]

\* C19: in every transcript a run got from the extraction, and so in the
\* one it persists, total_messages is the number of messages and
\* user_messages and assistant_messages are the numbers of messages of
\* role user and of role assistant.
C19_MetadataConsistent ==
    \A w \in Workers : \A i \in DOMAIN runs[w] :
        LET run == runs[w][i]
        IN  /\ run.metadata.total_messages = Len(run.messages)
            /\ run.metadata.user_messages
                  = Cardinality({j \in DOMAIN run.messages : run.messages[j].role = "user"})
            /\ run.metadata.assistant_messages
                  = Cardinality({j \in DOMAIN run.messages : run.messages[j].role = "assistant"})
            /\ run.metadata.user_messages + run.metadata.assistant_messages
                  <= run.metadata.total_messages

C19_Witness ==
    \E w \in Workers : \E i \in DOMAIN runs[w] :
        /\ runs[w][i].conversation_file = "written"
        /\ runs[w][i].metadata.total_messages = 1
        /\ runs[w][i].metadata.user_messages = 0
        /\ runs[w][i].metadata.assistant_messages = 1
        /\ [name |-> Filename(runs[w][i].title, runs[w][i].url), content |-> "complete"] \in valid_jsons

\* C20: the first level that fires decides the role, provided the queries
\* up to that level do not raise: a user avatar gives user whatever else
\* the container holds; else an assistant avatar gives assistant; else a
\* user indicator in class/test-id gives user; else an assistant indicator
\* gives assistant; else a non-empty text is scored by its phrases.
C20_CascadePrecedence ==
    (call.fn = "_determine_role_improved" /\ call.returned) =>
       LET c == call.container
           raised(points) == c.raises_at \in points
           avatars == {"user_avatar", "assistant_avatar"}
           queries == {"user_avatar", "assistant_avatar", "get_attribute"}
       IN  /\ (c.user_avatar /\ ~raised({"user_avatar"})) => call.role = "user"
           /\ (~c.user_avatar /\ c.assistant_avatar /\ ~raised(avatars))
                 => call.role = "assistant"
           /\ (~c.user_avatar /\ ~c.assistant_avatar /\ c.user_indicator /\ ~raised(queries))
                 => call.role = "user"
           /\ (~c.user_avatar /\ ~c.assistant_avatar /\ ~c.user_indicator
                  /\ c.assistant_indicator /\ ~raised(queries))
                 => call.role = "assistant"
           /\ (~c.user_avatar /\ ~c.assistant_avatar /\ ~c.user_indicator
                  /\ ~c.assistant_indicator /\ ~c.text.empty /\ c.raises_at = "none")
                 => /\ call.role \in {"user", "assistant"}
                    /\ c.text.phrases = {"here is", "certainly"} => call.role = "assistant"
                    /\ c.text.phrases = {"please"} => call.role = "user"

C20_Witness ==
    /\ call.fn = "_determine_role_improved"
    /\ call.returned
    /\ call.container.user_avatar
    /\ call.container.assistant_avatar
    /\ call.container.assistant_indicator
    /\ ~call.container.user_indicator
    /\ call.container.text.phrases = {"here is", "certainly"}
    /\ call.container.raises_at = "none"
    /\ call.role = "user"

\* C21: a container on which no signal fires (no avatar, no class or
\* test-id indicator, no listed phrase in its text) is classified
\* "unknown", never "user" or "assistant".
C21_NoSignalGivesUnknown ==
    (/\ call.fn = "_determine_role_improved"
     /\ call.returned
     /\ ~call.container.user_avatar
     /\ ~call.container.assistant_avatar
     /\ ~call.container.user_indicator
     /\ ~call.container.assistant_indicator
     /\ call.container.text.phrases = {})
       => call.role = "unknown"

\* C22: the structured scan returns no two messages with the same first
\* 100 characters; every returned message is the first one of the scanned
\* document with its first 100 characters, the returned messages stand in
\* document order, and there are at most 50 of them.
C22_StructuredScanDeduplicates ==
    (call.fn = "_strategy_structured_extraction" /\ call.returned) =>
       LET document == call.potential_messages
           kept == call.conversation
           first(i) == \A j \in 1..(i - 1) :
                          document[j].content.prefix # document[i].content.prefix
           RECURSIVE InOrder(_, _)
           InOrder(k, from) ==
               \/ k > Len(kept)
               \/ \E i \in from..Len(document) :
                     /\ first(i)
                     /\ document[i] = kept[k]
                     /\ InOrder(k + 1, i + 1)
       IN  /\ \A i, j \in DOMAIN kept :
                 i # j => kept[i].content.prefix # kept[j].content.prefix
           /\ InOrder(1, 1)
           /\ Len(kept) <= StructuredLimit

C22_Witness ==
    /\ call.fn = "_strategy_structured_extraction"
    /\ call.returned
    /\ Len(call.potential_messages) > StructuredLimit + 1
    /\ call.potential_messages[1].content.prefix = call.potential_messages[2].content.prefix
    /\ call.potential_messages[1].content.rest # call.potential_messages[2].content.rest
    /\ Len(call.conversation) = StructuredLimit
    /\ call.conversation[1] = call.potential_messages[1]
    /\ call.conversation[2] = call.potential_messages[3]

\* C23: improved_validate_link on a URL that fails the format check (wrong
\* prefix, or a last path segment of fewer than 20 characters) returns
\* False and at no point issues the request.
C23_BadFormatNoRequest ==
    (/\ call.fn = "improved_validate_link"
     /\ \/ ~call.url.prefix_ok
        \/ call.url.uuid_len < MinUuidLen)
       => /\ ~call.requested
          /\ call.returned => call.result = FALSE

C23_Witness ==
    /\ call.fn = "improved_validate_link"
    /\ call.returned
    /\ call.url.prefix_ok
    /\ call.url.uuid_len = MinUuidLen - 1
    /\ call.resp = OkResponse
    /\ ~call.requested
    /\ call.result = FALSE

\* C24: improved_validate_link returns True exactly when the URL passes the
\* format check, the request and the reading of the body raise nothing, the
\* final URL is no login page, the status is below 400, the body holds no
\* error indicator and at least 2 of the positive indicators; in every
\* other case, a timeout or a transport error included, it returns False
\* and raises nothing.
C24_AccessibleExactlyWhen ==
    (call.fn = "improved_validate_link" /\ call.returned) =>
       /\ call.result \in BOOLEAN
       /\ call.result = TRUE <=>
             /\ call.url.prefix_ok
             /\ call.url.uuid_len >= MinUuidLen
             /\ call.resp.exception = "none"
             /\ ~call.resp.final_url_auth
             /\ call.resp.status < 400
             /\ call.resp.read_exception = "none"
             /\ ~call.resp.error_indicator
             /\ call.resp.positive_count >= MinPositiveIndicators

C24_Witness ==
    /\ call.fn = "improved_validate_link"
    /\ call.returned
    /\ call.requested
    /\ call.url.uuid_len = MinUuidLen
    /\ call.resp.status = 399
    /\ call.resp.positive_count = MinPositiveIndicators
    /\ call.result = TRUE

\* C25: generate_links(count) returns exactly count URLs when count > 0 and
\* the empty list when count <= 0; each URL has the share prefix and a last
\* segment of at least 20 characters, so it passes the format check of
\* improved_validate_link.
C25_GeneratesCountWellFormed ==
    (call.fn = "generate_links" /\ call.returned) =>
       /\ call.count > 0 => Len(call.links) = call.count
       /\ call.count <= 0 => call.links = << >>
       /\ \A k \in DOMAIN call.links :
             /\ call.links[k].prefix_ok
             /\ call.links[k].uuid_len >= 20
             /\ FormatOk(call.links[k])

C25_Witness ==
    /\ call.fn = "generate_links"
    /\ call.returned
    /\ call.count = MaxCount
    /\ Len(call.links) = MaxCount
    /\ \A k \in DOMAIN call.links : FormatOk(call.links[k])

\* C26: for a transcript whose first user message is "my name is Sam, how
\* do I reset a password" generate_title returns sam_my_name_is_sam_how.
C26_SamTitleWithFifthToken ==
    (/\ call.fn = "generate_title"
     /\ call.returned
     /\ ContentsOf(call.conversation_data, "user") # << >>
     /\ ContentsOf(call.conversation_data, "user")[1] = SamComma)
       => call.title =
             <<"s", "a", "m", "_", "m", "y", "_", "n", "a", "m", "e", "_", "i", "s", "_", "s",
             "a", "m", "_", "h", "o", "w">>

\* C26, as the code has it: the title is the declared name, an underscore
\* and those of the first 5 whitespace-delimited tokens that consist of
\* letters and digits only, lower-cased and joined by underscores, at most
\* 50 characters long.  "Sam," is no such token: the message with the
\* comma gives sam_my_name_is_how, the message without it
\* sam_my_name_is_sam_how.
C26_SamTitleAlnumTokens ==
    (/\ call.fn = "generate_title"
     /\ call.returned
     /\ ContentsOf(call.conversation_data, "user") # << >>)
       => LET first_user_msg == ContentsOf(call.conversation_data, "user")[1]
          IN  /\ Len(call.title) <= 50
              /\ first_user_msg = SamComma =>
                    call.title =
                       <<"s", "a", "m", "_", "m", "y", "_", "n", "a", "m", "e", "_", "i", "s", "_", "h",
                       "o", "w">>
              /\ first_user_msg = SamPlain =>
                    call.title =
                       <<"s", "a", "m", "_", "m", "y", "_", "n", "a", "m", "e", "_", "i", "s", "_", "s",
                       "a", "m", "_", "h", "o", "w">>

C26_Witness ==
    /\ call.fn = "generate_title"
    /\ call.returned
    /\ Len(call.conversation_data) = 2
    /\ call.conversation_data[1].role = "user"
    /\ call.conversation_data[1].content = SamComma
    /\ call.title =
          <<"s", "a", "m", "_", "m", "y", "_", "n", "a", "m", "e", "_", "i", "s", "_", "h",
          "o", "w">>

\* C27: when the request to the language model fails (it raises a timeout
\* or a transport error, or the status is not 200), extract_insights returns
\* the fallback insight: all eight fields, sentiment one of positive,
\* neutral, negative, and a main_topic that is not None, also for a
\* transcript without any user or assistant message.
C27_FallbackInsightComplete ==
    (/\ call.fn = "extract_insights"
     /\ call.returned
     /\ call.llm.post # "none" \/ call.llm.status # 200)
       => /\ call.result.from = "fallback"
          /\ DOMAIN call.result.insights =
                {"user_name", "user_background", "main_topic", "problem_described",
                 "solution_provided", "tags", "sentiment", "created_at"}
          /\ call.result.insights.sentiment \in {"positive", "neutral", "negative"}
          /\ call.result.insights.main_topic # None

C27_Witness ==
    /\ call.fn = "extract_insights"
    /\ call.returned
    /\ call.llm.post = "TimeoutError"
    /\ Len(call.conversation_data) = 1
    /\ call.conversation_data[1].role = "unknown"
    /\ call.conversation_data[1].content = ThanksGreat
    /\ call.result.from = "fallback"
    /\ call.result.insights.sentiment = "neutral"
    /\ call.result.insights.main_topic =
          <<"G", "e", "n", "e", "r", "a", "l", " ", "c", "o", "n", "v", "e", "r", "s", "a",
          "t", "i", "o", "n">>

\* C28: on a status other than 200, a transport error, a timeout, or a reply
\* from which no JSON object can be parsed, neither as a whole nor from its
\* brace-delimited block, extract_insights returns the fallback insight.
C28_UnparsableReplyGivesFallback ==
    (/\ call.fn = "extract_insights"
     /\ call.returned
     /\ \/ call.llm.post # "none"
        \/ call.llm.status # 200
        \/ /\ ~(call.llm.content.direct_ok /\ call.llm.content.direct.type = "dict")
           /\ call.llm.content.block \notin {"object", "empty_object"})
       => call.result.from = "fallback"

\* C29: when process_single_link has processed an accessible URL whose
\* page holds a conversation (two or more messages, every stage
\* succeeding), valid_jsons holds a file named <uuid>.json and insights_json
\* a file of the same name.
C29_ArtifactsNamedByIdentifier ==
    \A w \in Workers : \A i \in DOMAIN runs[w] :
       (/\ runs[w][i].pc = "done"
        /\ runs[w][i].result = "Result"
        /\ Len(runs[w][i].messages) >= 2
        /\ runs[w][i].insights_ref)
          => /\ IdentifierFilename(runs[w][i].url) \in Names(valid_jsons)
             /\ IdentifierFilename(runs[w][i].url) \in Names(insights_json)

\* C30: a run goes through its stages in the order probe, extraction,
\* title, transcript file, insight request, and may end after any of them;
\* the extraction is started only after an Accessible probe, valid_links
\* grows by 1 in exactly the steps in which a probe returns Accessible, the
\* transcript is written only once the title is there, and the insight
\* request is started only when the transcript has been written.
C30_StagesInOrder ==
    /\ [][LET steps == {<<"pending", "waiting">>, <<"pending", "probe">>,
                        <<"waiting", "probe">>, <<"probe", "extract">>,
                        <<"extract", "insights">>}
                       \cup {<<pc, "done">> : pc \in {"pending", "waiting", "probe",
                                                       "extract", "insights"}}
              both(w) == DOMAIN runs[w] \cap DOMAIN runs'[w]
              accessible == {wi \in Workers \X Indices :
                                /\ wi[2] \in both(wi[1])
                                /\ runs[wi[1]][wi[2]].pc = "probe"
                                /\ runs[wi[1]][wi[2]].is_valid = "unset"
                                /\ runs'[wi[1]][wi[2]].is_valid = "True"}
          IN  /\ \A w \in Workers : \A i \in both(w) :
                    \/ runs'[w][i].pc = runs[w][i].pc
                    \/ <<runs[w][i].pc, runs'[w][i].pc>> \in steps
                    \/ /\ runs[w][i].pc = "done"
                       /\ runs'[w][i] = NewRun(runs'[w][i].url)
              /\ valid_links' = valid_links + Cardinality(accessible)]_vars
    /\ [](\A w \in Workers : \A i \in DOMAIN runs[w] :
             /\ runs[w][i].extract_started => runs[w][i].is_valid = "True"
             /\ runs[w][i].title # "unset" => runs[w][i].extract_started
             /\ runs[w][i].conversation_file # "unset" => runs[w][i].title # "unset"
             /\ runs[w][i].insights_started => runs[w][i].conversation_file = "written")

C30_Witness ==
    \E w \in Workers : \E i \in DOMAIN runs[w] :
        /\ runs[w][i].pc = "done"
        /\ runs[w][i].result = "Result"
        /\ runs[w][i].is_valid = "True"
        /\ runs[w][i].extract_started
        /\ runs[w][i].title = "name_summary"
        /\ runs[w][i].conversation_file = "written"
        /\ runs[w][i].insights_started
        /\ runs[w][i].insights_ref
        /\ valid_links = 1
        /\ \E j \in DOMAIN runs[w] : runs[w][j].is_valid = "False"

\* C31: _guess_role_from_content returns "user" when more user phrases than
\* assistant phrases occur in the text, "assistant" when more assistant
\* phrases occur, and on equal counts "user" for an even position and
\* "assistant" for an odd one; it never returns "unknown".
C31_ScoringThenParity ==
    (call.fn = "_guess_role_from_content" /\ call.returned) =>
       LET requester == {"please", "can you"} \cap call.content.phrases
           responder == {"here is", "certainly"} \cap call.content.phrases
           more(a, b) == Cardinality(a) > Cardinality(b)
           even == call.position \in {0, 2, 4}
       IN  /\ more(requester, responder) => call.role = "user"
           /\ more(responder, requester) => call.role = "assistant"
           /\ (~more(requester, responder) /\ ~more(responder, requester))
                 => call.role = IF even THEN "user" ELSE "assistant"
           /\ call.role # "unknown"

C31_Witness ==
    /\ call.fn = "_guess_role_from_content"
    /\ call.returned
    /\ call.content.phrases = {"please", "certainly"}
    /\ call.position = 3
    /\ call.role = "assistant"

\* C32: the worker generates a batch only when it has slept the inter-batch
\* interval since the batch before, whatever that batch's outcome was, an
\* unexpected error included (the first batch follows the start).
C32_IntervalBeforeEveryBatch ==
    [][\A w \in Workers :
          (wpc[w] # "gather" /\ wpc'[w] = "gather") => wpc[w] \in {"created", "interval"}]_vars

\* C32, as the code has it: a batch that was handled without an unexpected
\* error is followed by the inter-batch sleep, directly or after the
\* cooldown sleep, before the next batch is generated; after an unexpected
\* error the worker sleeps the recovery interval instead, and the next
\* batch is generated when that sleep is over.
C32_IntervalAfterCountedBatch ==
    [][\A w \in Workers :
          /\ (wpc[w] = "gather" /\ wpc'[w] # "gather")
                => wpc'[w] \in {"interval", "cooldown", "cancelled"}
          /\ (wpc[w] = "cooldown" /\ wpc'[w] # "cooldown")
                => wpc'[w] \in {"interval", "cancelled"}
          /\ (wpc[w] # "gather" /\ wpc'[w] = "gather")
                => wpc[w] \in {"created", "interval", "recover"}
          /\ (wpc[w] # "recover" /\ wpc'[w] = "recover")
                => /\ wpc[w] \in {"created", "interval"}
                   /\ errors' = errors + 1]_vars

C32_Witness ==
    \E w \in Workers :
        /\ wpc[w] = "interval"
        /\ errors = 1
        /\ links_generated = 2 * BatchSize
        /\ successful[w] > 0

\* C33: an unexpected error in the loop body adds 1 to consecutive_failures
\* and sends the worker into the recovery sleep, after which it goes round
\* the loop again; nothing else is counted in that step.  The errors count
\* like zero-success batches: the cooldown sleep is entered with a counter
\* of 3 or more whichever of the two raised it.
C33_BatchErrorCountsAsFailure ==
    /\ [][errors' # errors =>
             /\ errors' = errors + 1
             /\ \E w \in Workers :
                   /\ wpc[w] \in {"created", "interval", "recover"}
                   /\ wpc'[w] = "recover"
                   /\ consecutive_failures'[w] = consecutive_failures[w] + 1
                   /\ \A v \in Workers \ {w} : wpc'[v] = wpc[v]
             /\ UNCHANGED <<counters, files>>]_vars
    /\ [][\A w \in Workers :
             (wpc[w] = "recover" /\ wpc'[w] # "recover") => wpc'[w] \in {"gather", "cancelled"}]_vars
    /\ [](\A w \in Workers : wpc[w] = "cooldown" =>
             /\ successful[w] = 0
             /\ consecutive_failures[w] >= FailureThreshold)

C33_Witness ==
    \E w \in Workers :
        /\ wpc[w] = "cooldown"
        /\ errors = 2
        /\ links_generated = BatchSize
        /\ consecutive_failures[w] = FailureThreshold

\* C34: for every transcript (a message's content is a non-empty text)
\* generate_title returns a non-empty title of at most 50 characters, each
\* of them a word character, a hyphen or an underscore; the title is the
\* timestamp placeholder exactly when the transcript has no user message,
\* and otherwise it does not depend on the time of the call.
C34_TitleWellFormed ==
    (/\ call.fn = "generate_title"
     /\ call.returned
     /\ \A k \in DOMAIN call.conversation_data : call.conversation_data[k].content # << >>)
       => LET has_user == \E k \in DOMAIN call.conversation_data :
                             call.conversation_data[k].role = "user"
          IN  /\ call.title # << >>
              /\ Len(call.title) <= 50
              /\ \A k \in DOMAIN call.title :
                    call.title[k] \in Letters \cup Digits \cup {"_", "-"}
              /\ has_user <=> call.title # Timestamped(call.now)
              /\ has_user =>
                    \A now \in Instants : call.title = GenerateTitle(call.conversation_data, now)

C34_Witness ==
    /\ call.fn = "generate_title"
    /\ call.returned
    /\ Len(call.conversation_data) = 2
    /\ call.conversation_data[2].role = "user"
    /\ call.conversation_data[2].content = LongWords
    /\ Len(call.title) = 50

\* C35: the sentiment of the fallback insight is positive exactly when more
\* words of the positive list than of the negative list occur in the user
\* and assistant messages, negative exactly when more of the negative list
\* occur, neutral otherwise; user_name is the name the first user message
\* declares ("sam" for "my name is Sam, ..."), None when it declares none or
\* there is no user message.
C35_FallbackSentimentAndName ==
    (/\ call.fn = "extract_insights"
     /\ call.returned
     /\ call.result.from = "fallback")
       => LET spoken == {k \in DOMAIN call.conversation_data :
                            call.conversation_data[k].role \in {"user", "assistant"}}
              occurs(word) == \E k \in spoken :
                                 Contains(str_lower(call.conversation_data[k].content), word)
              positive == {k \in DOMAIN positive_words : occurs(positive_words[k])}
              negative == {k \in DOMAIN negative_words : occurs(negative_words[k])}
              by_user == {k \in DOMAIN call.conversation_data :
                             call.conversation_data[k].role = "user"}
              first_user == CHOOSE k \in by_user : \A j \in by_user : k <= j
              insights == call.result.insights
          IN  /\ insights.sentiment = "positive"
                    <=> Cardinality(positive) > Cardinality(negative)
              /\ insights.sentiment = "negative"
                    <=> Cardinality(negative) > Cardinality(positive)
              /\ insights.sentiment = "neutral"
                    <=> Cardinality(negative) = Cardinality(positive)
              /\ insights.user_name =
                    IF by_user # {} /\ call.conversation_data[first_user].content = SamComma
                    THEN <<"s", "a", "m">>
                    ELSE None

C35_Witness ==
    /\ call.fn = "extract_insights"
    /\ call.returned
    /\ call.result.from = "fallback"
    /\ Len(call.conversation_data) = 2
    /\ call.conversation_data[1] = [role |-> "assistant", content |-> SorryError]
    /\ call.conversation_data[2] = [role |-> "user", content |-> SamComma]
    /\ call.result.insights.sentiment = "negative"
    /\ call.result.insights.user_name = <<"s", "a", "m">>

\* C36: the runs that are in flight when a stop cancels their worker are
\* abandoned: from the cancellation on none of them takes a step, so when
\* the stop has returned no run of the stopped worker is executing, and
\* the counters and the two directories stay as they are while is_running
\* is clear.
C36_StopAbandonsRuns ==
    /\ [][\A w \in Workers : \A i \in DOMAIN runs[w] \cap DOMAIN runs'[w] :
             cancel_requested[w] => runs'[w][i] = runs[w][i]]_vars
    /\ [][(~is_running /\ ~is_running' /\ awaiting = {}) => UNCHANGED <<counters, files>>]_vars
    /\ [](\A w \in Workers : (Done(w) /\ w \notin awaiting) => InFlight(w) \cup Waiting(w) = {})

\* C37: for every interleaving of start and stop requests at most one
\* worker loop is generating batches; a start changes nothing while
\* is_running is set and a stop changes nothing while it is clear; and a
\* start that arrives while an earlier stop still awaits the old worker
\* never leads to two workers with runs in flight.
C37_OneWorkerAtATime ==
    /\ [](Cardinality({w \in Workers \ Absent : ~Done(w) /\ ~cancel_requested[w]}) <= 1)
    /\ [][(is_running /\ is_running') => UNCHANGED <<background_task, cancel_requested>>]_vars
    /\ [][~is_running => UNCHANGED cancel_requested]_vars
    /\ [](Cardinality({w \in Workers : InFlight(w) # {}}) <= 1)

\* C38: with runs dispatched only by the worker, insights_extracted never
\* exceeds valid_links and valid_links + failed_validations never exceeds
\* links_generated; links_generated grows only by a whole batch, in the step
\* that creates the batch's runs, none of which has started.
C38_CounterOrder ==
    /\ [](insights_extracted <= valid_links)
    /\ [](valid_links + failed_validations <= links_generated)
    /\ [][links_generated' # links_generated =>
            /\ links_generated' = links_generated + BatchSize
            /\ \E w \in Workers :
                 /\ runs[w] = << >>
                 /\ Len(runs'[w]) = BatchSize
                 /\ \A i \in DOMAIN runs'[w] : runs'[w][i].pc = "pending"]_vars

\* every link of a second batch is counted while its runs are still to
\* start, after a first batch that gave a transcript with an insight
C38_Witness ==
    /\ insights_extracted = 1
    /\ valid_links = 1
    /\ failed_validations = BatchSize - 1
    /\ links_generated = 2 * BatchSize
    /\ \E w \in Workers : Len(runs[w]) = BatchSize /\ \A i \in DOMAIN runs[w] : runs[w][i].pc = "pending"

\* C39: every insight written to insights_json is structurally complete,
\* whether it is the language model's reply or the fallback: it is an object
\* with the eight keys of an Insight and its sentiment is positive, neutral
\* or negative.
C39_PersistedInsightComplete ==
    (call.fn = "extract_insights" /\ call.returned)
       => \A written \in InsightsWritten(call.result) :
             IF written.from = "fallback"
             THEN /\ DOMAIN written.insights = InsightKeys
                  /\ written.insights.sentiment \in {"positive", "neutral", "negative"}
             ELSE /\ written.insights.type = "dict"
                  /\ InsightKeys \subseteq written.insights.keys
                  /\ written.insights.sentiment \in {"positive", "neutral", "negative"}

=============================================================================
